---- MODULE Spec2Model ----
(***************************************************************************)
(* Model of the in-worker inference runtime of MARCS.                      *)
(*                                                                         *)
(* The AIWorker object (src/src/workers/aiWorker.ts) is exposed through    *)
(* Comlink: every message of the host invokes one async method.  A method  *)
(* runs without preemption up to its next await on an external promise     *)
(* (InferenceSession.create, session.release, session.run); there it is    *)
(* suspended and the next message may be dispatched.  An await on a        *)
(* promise that is already settled (await this.initialize()) only yields   *)
(* to the microtask queue, so no other message handler runs in between.    *)
(*                                                                         *)
(* Each action below is one such uninterrupted segment of a method.        *)
(***************************************************************************)
EXTENDS Integers, Sequences, FiniteSets, TLC

\* ------------------------------------------------------------------ bounds
MaxCalls == 4
MaxInbox == 2
MaxTokensArg == 2
MaxAnalysisCalls == 3
MaxElapsed == 1
MaxTextLen == 3
MaxEncodes == 3
MaxStreamTokens == 3
MaxConfigTokens == 3
MaxVocab == 3
MaxWeight == 3
RandomGrain == 4

\* --------------------------------------------------------- program constants
DefaultMaxTokens == 100
AnalysisMaxTokens == 150

ModelIds == {"m1", "m2"}

\* the ids that have a descriptor in AIService.availableModels; the worker is
\* handed a modelName and a modelPath and never sees the descriptors
Registered == {"m1"}
NoId == "-"

VARIABLES
    models,       \* AIWorker.models: the Map's entry list, in insertion order
    initialized,  \* AIWorker.initialized
    sessions,     \* every InferenceSession created so far, by creation order
    inbox,        \* messages posted by the host and not yet dispatched
    posted,       \* number of messages posted so far
    started,      \* arrival number of the message dispatched last
    inflight,     \* the calls suspended at an await
    last,         \* the call that completed last, with what it resolved to
    loadedOk,     \* ids whose loadModel returned true with no unload since
    stale,        \* the loadModel calls that were in flight when an unloadModel of their id returned true
    tok,          \* a tokenizer and the text or token ids it is working on
    stream,       \* a generateStream call of the inference engine
    samp,         \* a sampleToken call of the inference engine
    svc,          \* an AIService object of the host with the workers it created
    soft,         \* logits scaled by two temperatures and put through softmax
    vocab,        \* a SimpleTokenizer of lib/ai with its two vocabulary maps
    pipe,         \* an OfflineAIPipeline with its model loader during cleanup()
    store,        \* a StorageManager with its IndexedDB store and SQLite table
    hist          \* an AIResponseProcessor with its conversation history

\* the objects of src/lib that the worker does not use
lib == <<vocab, pipe, store, hist>>
NoVocab == [pc |-> "none"]
NoPipe == [pc |-> "none"]
NoStore == [pc |-> "none"]
NoHist == [pc |-> "none"]
LibIdle ==
    /\ vocab = NoVocab
    /\ pipe = NoPipe
    /\ store = NoStore
    /\ hist = NoHist

\* the variables of the worker, and those of the components studied on their own
worker == <<models, initialized, sessions, inbox, posted, started, inflight, last, loadedOk,
           stale>>
aux == <<tok, stream, samp, svc, soft, lib>>
vars == <<models, initialized, sessions, inbox, posted, started, inflight, last, loadedOk, stale,
          tok, stream, samp, svc, soft, lib>>

\* ------------------------------------------------------------- SimpleTokenizer
commonTokens ==
    << "<pad>", "<unk>", "<s>", "</s>", "<mask>",
       "the", "a", "an", "and", "or", "but", "in", "on", "at", "to", "for", "of", "with", "by",
       "I", "you", "he", "she", "it", "we", "they", "me", "him", "her", "us", "them",
       "is", "are", "was", "were", "be", "been", "being", "have", "has", "had", "do", "does", "did",
       "will", "would", "could", "should", "may", "might", "can", "must",
       "not", "no", "yes", "please", "thank", "hello", "goodbye", "sorry",
       ".", ",", "!", "?", ":", ";", "\"", "'", "(", ")", "[", "]", "{", "}",
       "0", "1", "2", "3", "4", "5", "6", "7", "8", "9" >>

\* faulty variant of reverseVocabulary: the ids are taken to start at -1
reverseVocabularyOffByOne(tokenId) ==
    IF tokenId + 1 >= 0 /\ tokenId + 1 < Len(commonTokens) THEN commonTokens[tokenId + 2] ELSE "<unk>"

\* reverseVocabulary.get(tokenId) ?? '<unk>'  (token ids are 0-based)
reverseVocabulary(tokenId) ==
    IF tokenId >= 0 /\ tokenId < Len(commonTokens) THEN commonTokens[tokenId + 1] ELSE "<unk>"

\* A text is a sequence of atoms: a punctuation mark of tokenizeText's
\* character class, a whitespace character, or a word, i.e. a maximal run of
\* other characters (so no two words are adjacent in a text).  Concatenation
\* of strings is concatenation of sequences; the empty string is << >>.
Punctuation == {".", "!", "?", ",", ":", ";", "'", "\"", "(", ")", "[", "]", "{", "}"}
Whitespace == {" ", "\n", "\t"}

\* the words with upper-case letters that texts of the model may hold, with
\* what String.toLowerCase makes of them
UpperCased == ("Hello" :> "hello") @@ ("I" :> "i")

toLowerCase(text) ==
    [i \in 1..Len(text) |-> IF text[i] \in DOMAIN UpperCased THEN UpperCased[text[i]] ELSE text[i]]

\* .replace(/([.!?,:;'"()[\]{}])/g, ' $1 ')
RECURSIVE isolatePunctuation(_)
isolatePunctuation(text) ==
    IF text = << >> THEN << >>
    ELSE (IF Head(text) \in Punctuation THEN << " ", Head(text), " " >> ELSE << Head(text) >>)
         \o isolatePunctuation(Tail(text))

\* .split(/\s+/): the pieces between maximal runs of whitespace; as in
\* JavaScript, a text that starts or ends with whitespace gives an empty piece
RECURSIVE splitWhitespace(_, _)
splitWhitespace(text, piece) ==
    IF text = << >> THEN << piece >>
    ELSE IF Head(text) \in Whitespace
         THEN IF Len(text) > 1 /\ text[2] \in Whitespace
              THEN splitWhitespace(Tail(text), piece)
              ELSE << piece >> \o splitWhitespace(Tail(text), << >>)
         ELSE splitWhitespace(Tail(text), Append(piece, Head(text)))

\* faulty variant of tokenizeText: punctuation is not isolated
tokenizeTextNoIsolation(text) ==
    LET nonEmpty(token) == Len(token) > 0
    IN  SelectSeq(splitWhitespace(toLowerCase(text), << >>), nonEmpty)

tokenizeText(text) ==
    LET nonEmpty(token) == Len(token) > 0
    IN  SelectSeq(splitWhitespace(isolatePunctuation(toLowerCase(text)), << >>), nonEmpty)

\* this.vocabulary: every token of commonTokens is one atom
vocabularyHas(word) == Len(word) = 1 /\ \E i \in 1..Len(commonTokens) : commonTokens[i] = word[1]

vocabularyGet(word) == (CHOOSE i \in 1..Len(commonTokens) : commonTokens[i] = word[1]) - 1

vocabSize == Len(commonTokens)

\* faulty variant of encodeWord: an unknown word gets the id after the last
encodeWordPastEnd(word) ==
    IF vocabularyHas(toLowerCase(word)) THEN vocabularyGet(toLowerCase(word)) ELSE vocabSize

\* this.vocabulary.get(word.toLowerCase()) ?? this.vocabulary.get('<unk>') ?? 1
encodeWord(word) ==
    IF vocabularyHas(toLowerCase(word)) THEN vocabularyGet(toLowerCase(word))
    ELSE IF vocabularyHas(<< "<unk>" >>) THEN vocabularyGet(<< "<unk>" >>)
    ELSE 1

encode(text) ==
    LET words == tokenizeText(text)
    IN  [i \in 1..Len(words) |-> encodeWord(words[i])]

\* words.join(' ')
RECURSIVE join(_)
join(words) ==
    IF words = << >> THEN << >>
    ELSE IF Len(words) = 1 THEN << words[1] >>
    ELSE << words[1], " " >> \o join(Tail(words))

\* decode: the words of the tokens, sentinels dropped, joined by single spaces
decode(tokens) ==
    LET words == [i \in 1..Len(tokens) |-> reverseVocabulary(tokens[i])]
        keep(w) == w # "<pad>" /\ w # "<s>" /\ w # "</s>"
    IN  join(SelectSeq(words, keep))

\* ------------------------------------------------------ the Map this.models
\* A JavaScript Map keeps its entries in insertion order; delete empties the
\* entry in place, set on a present key overwrites the value in place, set on
\* an absent key appends.  A live iterator is an index into this list.
Tomb == [key |-> NoId, sess |-> 0]

MapHas(m, k) == \E i \in 1..Len(m) : m[i].key = k

MapIndex(m, k) == CHOOSE i \in 1..Len(m) : m[i].key = k

MapGet(m, k) == m[MapIndex(m, k)].sess

MapSet(m, k, s) ==
    IF MapHas(m, k)
    THEN [m EXCEPT ![MapIndex(m, k)] = [key |-> k, sess |-> s]]
    ELSE Append(m, [key |-> k, sess |-> s])

\* faulty variant of MapDelete: the entry is never removed
MapDeleteNothing(m, k) == m

MapDelete(m, k) ==
    IF MapHas(m, k) THEN [m EXCEPT ![MapIndex(m, k)] = Tomb] ELSE m

\* faulty variant of MapNext: the iterator steps over one entry too many
MapNextSkips(m, i) ==
    LET later == {j \in 1..Len(m) : j > i + 1 /\ m[j] # Tomb}
    IN  IF later = {} THEN 0 ELSE CHOOSE j \in later : \A x \in later : j <= x

\* the next live entry after position i of the iterator, 0 when exhausted
MapNext(m, i) ==
    LET later == {j \in 1..Len(m) : j > i /\ m[j] # Tomb}
    IN  IF later = {} THEN 0 ELSE CHOOSE j \in later : \A x \in later : j <= x

\* Array.from(this.models.keys())
getLoadedModels ==
    LET live(e) == e # Tomb
        es == SelectSeq(models, live)
    IN  [i \in 1..Len(es) |-> es[i].key]

\* ------------------------------------------------------------------- records
NoText == << >>
NoType == "-"

Call(seq, op, id, n) ==
    [seq |-> seq, op |-> op, id |-> id, n |-> n, pc |-> "start", sess |-> 0, it |-> 0,
     atStart |-> {}, visited |-> {}, failed |-> {}, retry |-> FALSE, analysisType |-> NoType]

\* what an analyzeDocument returns; NoAnalysis for every other method
NoAnalysis == [type |-> NoType, results |-> [key |-> NoType, value |-> NoText],
               processingTime |-> 0, modelUsed |-> NoId]

NoCall ==
    [op |-> "none", id |-> NoId, n |-> 0, pc |-> "start", kind |-> "none", b |-> FALSE,
     text |-> NoText, tokens |-> 0, atStart |-> {}, visited |-> {}, failed |-> {},
     retry |-> FALSE, analysisType |-> NoType, inner |-> NoText, analysis |-> NoAnalysis]

\* the worker after construction
WorkerInit ==
    /\ models = << >>
    /\ initialized = FALSE
    /\ sessions = << >>
    /\ inbox = << >>
    /\ posted = 0
    /\ started = 0
    /\ inflight = {}
    /\ last = NoCall
    /\ loadedOk = {}
    /\ stale = {}

\* no tokenizer call, no stream and no sampling call is under study
NoTok == [pc |-> "none"]
NoStream ==
    [pc |-> "none", setup |-> "ok", optMax |-> 0, cfgMax |-> 0, stopSequences |-> {},
     maxTokens |-> 0, i |-> 0, currentTokens |-> << >>, yielded |-> << >>, steps |-> 0, runs |-> 0,
     inputTokens |-> << >>, fed |-> << >>, sampled |-> << >>]
NoSamp ==
    [pc |-> "none", impl |-> "engine", topK |-> 0, topP |-> 0, random |-> 0,
     softmax |-> << >>, probs |-> << >>,
     denom |-> 1, beforeTopP |-> << >>, nucleusIndices |-> {}, token |-> 0]

\* no AIService and no temperature comparison is under study
NoSvc == [pc |-> "none"]
NoSoft == [pc |-> "none"]

Init ==
    /\ WorkerInit
    /\ tok = NoTok
    /\ stream = NoStream
    /\ samp = NoSamp
    /\ svc = NoSvc
    /\ soft = NoSoft
    /\ LibIdle

\* ------------------------------------------------------------ what a call
\* resolves to at the RPC boundary
RetBool(b) == [kind |-> "bool", b |-> b, text |-> NoText]
RetVoid == [kind |-> "void", b |-> FALSE, text |-> NoText]
RetString(text) == [kind |-> "string", b |-> FALSE, text |-> text]
RetList(l) == [kind |-> "list", b |-> FALSE, text |-> l]
RetThrow == [kind |-> "throw", b |-> FALSE, text |-> NoText]
RetObject == [kind |-> "object", b |-> FALSE, text |-> NoText]

Done(c, r, tokens) ==
    [op |-> c.op, id |-> c.id, n |-> c.n, pc |-> c.pc, kind |-> r.kind, b |-> r.b,
     text |-> r.text, tokens |-> tokens,
     atStart |-> c.atStart, visited |-> c.visited, failed |-> c.failed, retry |-> c.retry,
     analysisType |-> c.analysisType, inner |-> NoText, analysis |-> NoAnalysis]

\* the diagnostic strings of generateText start with this marker
StartsWithMarker(text) == Len(text) > 0 /\ text[1] = "[Inference Error: "

\* the call resolved to false, to a diagnostic string, or threw
Failed(l) ==
    \/ l.kind = "bool" /\ ~l.b
    \/ l.kind = "string" /\ StartsWithMarker(l.text)
    \/ l.kind = "throw"

\* the call c as it begins; retry records that the call completed last was a
\* failed call of the same method with the same modelName
Began(c) == [c EXCEPT !.retry = (last.op = c.op /\ last.id = c.id /\ Failed(last))]

\* ------------------------------------------------------------ the sessions
NewSession(id) == [id |-> id, releases |-> 0, released |-> FALSE]

\* session.release() is invoked on session s
InvokeRelease(ss, s) == [ss EXCEPT ![s].releases = @ + 1]

\* the release of session s resolved
Released(ss, s) == [ss EXCEPT ![s].released = TRUE]

\* ------------------------------------------------------------ the host side
Messages ==
    [op : {"loadModel", "unloadModel"}, id : ModelIds, n : {0}]
    \cup [op : {"generateText"}, id : ModelIds, n : 1..MaxTokensArg]
    \cup [op : {"cleanup", "getLoadedModels"}, id : {NoId}, n : {0}]

\* the host posts a message; n is options.maxTokens of a generateText
Post(m) ==
    /\ posted < MaxCalls
    /\ Len(inbox) < MaxInbox
    /\ posted' = posted + 1
    /\ inbox' = Append(inbox, Call(posted + 1, m.op, m.id, m.n))
    /\ UNCHANGED <<models, initialized, sessions, started, inflight, last, loadedOk, stale>>

\* ------------------------------------------------------------ the dispatch
\* faulty variant of NextMessage: the newest message is served first
NewestMessage(q) == Len(q)

\* the message event handler installed by expose() takes the oldest message
NextMessage(q) == 1

RemoveAt(q, i) == SubSeq(q, 1, i - 1) \o SubSeq(q, i + 1, Len(q))

Dispatch(op, c) ==
    /\ inbox # << >>
    /\ c = inbox[NextMessage(inbox)]
    /\ c.op = op
    /\ inbox' = RemoveAt(inbox, NextMessage(inbox))
    /\ started' = c.seq
    /\ UNCHANGED posted

Unloading(calls, id) ==
    \E c \in calls : c.op = "cleanup" \/ (c.op = "unloadModel" /\ c.id = id)

\* ------------------------------------------------------------ loadModel
\* faulty variant of alreadyLoaded: the check for a loaded model is missing
neverLoaded(modelName) == FALSE

\* if (this.models.has(modelName)) return true
alreadyLoaded(modelName) == MapHas(models, modelName)

\* faulty variant of loadModelCatch: the catch block rethrows
loadModelRethrows == RetThrow

\* the catch block of loadModel
loadModelCatch == RetBool(FALSE)

\* loadModel up to the await of InferenceSession.create
LoadModelBegin(c) ==
    /\ Dispatch("loadModel", c)
    /\ initialized' = TRUE
    /\ IF alreadyLoaded(c.id)
       THEN /\ last' = Done(Began(c), RetBool(TRUE), 0)
            /\ inflight' = inflight
            /\ loadedOk' = IF Unloading(inflight, c.id) THEN loadedOk ELSE loadedOk \cup {c.id}
       ELSE /\ inflight' = inflight \cup {[Began(c) EXCEPT !.pc = "creating"]}
            /\ UNCHANGED <<last, loadedOk>>
    /\ UNCHANGED <<models, sessions, stale>>

\* InferenceSession.create resolved: the session is stored under the name
LoadModelCreated(c) ==
    /\ c \in inflight
    /\ c.op = "loadModel"
    /\ c.pc = "creating"
    /\ sessions' = Append(sessions, NewSession(c.id))
    /\ models' = MapSet(models, c.id, Len(sessions) + 1)
    /\ inflight' = inflight \ {c}
    /\ last' = Done(c, RetBool(TRUE), 0)
    /\ loadedOk' = IF Unloading(inflight', c.id) THEN loadedOk ELSE loadedOk \cup {c.id}
    /\ stale' = stale \ {c.seq}
    /\ UNCHANGED <<initialized, inbox, posted, started>>

\* faulty variant of LoadModelFailed: the failed load leaves a dead entry in
\* the map
LoadModelFailedStores(c) ==
    /\ c \in inflight
    /\ c.op = "loadModel"
    /\ c.pc = "creating"
    /\ inflight' = inflight \ {c}
    /\ models' = Append(models, Tomb)
    /\ last' = Done(c, loadModelCatch, 0)
    /\ stale' = stale \ {c.seq}
    /\ UNCHANGED <<initialized, sessions, inbox, posted, started, loadedOk>>

\* InferenceSession.create rejected
LoadModelFailed(c) ==
    /\ c \in inflight
    /\ c.op = "loadModel"
    /\ c.pc = "creating"
    /\ inflight' = inflight \ {c}
    /\ last' = Done(c, loadModelCatch, 0)
    /\ stale' = stale \ {c.seq}
    /\ UNCHANGED <<models, initialized, sessions, inbox, posted, started, loadedOk>>

\* ------------------------------------------------------------ unloadModel
\* faulty variant of unloadModelCatch: the catch block rethrows
unloadModelRethrows == RetThrow

\* the catch block of unloadModel
unloadModelCatch == RetBool(FALSE)

\* faulty variant of unloadModelNotFound: an absent model counts as unloaded
unloadModelNotFoundTrue == RetBool(TRUE)

\* if (!modelInfo) return false
unloadModelNotFound == RetBool(FALSE)

\* unloadModel up to the await of session.release; every entry of the map was
\* stored by loadModel with its session, so modelInfo.session is always set
UnloadModelBegin(c) ==
    /\ Dispatch("unloadModel", c)
    /\ loadedOk' = loadedOk \ {c.id}
    /\ IF ~MapHas(models, c.id)
       THEN /\ last' = Done(Began(c), unloadModelNotFound, 0)
            /\ UNCHANGED <<inflight, sessions>>
       ELSE /\ sessions' = InvokeRelease(sessions, MapGet(models, c.id))
            /\ inflight' = inflight \cup
                   {[Began(c) EXCEPT !.pc = "releasing", !.sess = MapGet(models, c.id)]}
            /\ UNCHANGED last
    /\ UNCHANGED <<models, initialized, stale>>

\* the loadModel(id) calls in flight when an unloadModel(id) returns true
OutlivedUnload(calls, id) ==
    {d.seq : d \in {e \in calls : e.op = "loadModel" /\ e.id = id}}

\* session.release resolved: the entry of the name is deleted
UnloadModelReleased(c) ==
    /\ c \in inflight
    /\ c.op = "unloadModel"
    /\ c.pc = "releasing"
    /\ sessions' = Released(sessions, c.sess)
    /\ models' = MapDelete(models, c.id)
    /\ inflight' = inflight \ {c}
    /\ last' = Done(c, RetBool(TRUE), 0)
    /\ stale' = stale \cup OutlivedUnload(inflight, c.id)
    /\ UNCHANGED <<initialized, inbox, posted, started, loadedOk>>

\* session.release rejected: the catch block runs, the entry stays
UnloadModelFailed(c) ==
    /\ c \in inflight
    /\ c.op = "unloadModel"
    /\ c.pc = "releasing"
    /\ inflight' = inflight \ {c}
    /\ last' = Done(c, unloadModelCatch, 0)
    /\ UNCHANGED <<models, initialized, sessions, inbox, posted, started, loadedOk, stale>>

\* ------------------------------------------------------------ generateText
\* the token ids the sampler may return in the model: a sentinel and a word of
\* the vocabulary
SampledTokens == {0, 5}

\* faulty variant of generateTextCatch: the catch block rethrows
generateTextRethrows(message) == RetThrow

\* the catch block of generateText: the diagnostic string
generateTextCatch(message) ==
    RetString(<< "[Inference Error: ", message,
                 ". This could mean the model file is missing, incompatible, or the model requires a specific input format. Please check that ONNX models are properly loaded in the /models directory.]" >>)

\* const maxTokens = options.maxTokens || 100  (n = 0: no maxTokens given)
maxTokensOf(c) == IF c.n = 0 THEN DefaultMaxTokens ELSE c.n

\* greedyDecode returns the one token sampled from the logits of the last
\* position, whatever maxTokens is
greedyDecode(sampled, maxTokens) == << sampled >>

\* steps 5 and 6 of generateText and its return statement
generatedString(sampled, maxTokens) ==
    LET outputTokens == greedyDecode(sampled, maxTokens)
        generatedText == decode(outputTokens)
    IN  IF generatedText = NoText
        THEN << "Generated response from ONNX model" >>
        ELSE generatedText

\* generateText up to the await of session.run
GenerateTextBegin(c) ==
    /\ Dispatch("generateText", c)
    /\ IF ~MapHas(models, c.id)
       THEN /\ last' = Done(Began(c), generateTextCatch("Model not loaded"), 0)
            /\ UNCHANGED inflight
       ELSE /\ inflight' = inflight \cup
                   {[Began(c) EXCEPT !.pc = "running", !.sess = MapGet(models, c.id)]}
            /\ UNCHANGED last
    /\ UNCHANGED <<models, initialized, sessions, loadedOk, stale>>

\* session.run resolved with an output tensor: sample, decode, return the text
GenerateTextReturns(c, sampled) ==
    /\ c \in inflight
    /\ c.op = "generateText"
    /\ c.pc = "running"
    /\ last' = Done(c, RetString(generatedString(sampled, maxTokensOf(c))),
                    Len(greedyDecode(sampled, maxTokensOf(c))))
    /\ inflight' = inflight \ {c}
    /\ UNCHANGED <<models, initialized, sessions, inbox, posted, started, loadedOk, stale>>

\* faulty variant of GenerateTextFails: the failed generation drops the model
GenerateTextFailsEvicts(c, message) ==
    /\ c \in inflight
    /\ c.op = "generateText"
    /\ c.pc = "running"
    /\ last' = Done(c, generateTextCatch(message), 0)
    /\ inflight' = inflight \ {c}
    /\ models' = MapDelete(models, c.id)
    /\ UNCHANGED <<initialized, sessions, inbox, posted, started, loadedOk, stale>>

\* session.run rejected, or resolved without any output tensor
GenerateTextFails(c, message) ==
    /\ c \in inflight
    /\ c.op = "generateText"
    /\ c.pc = "running"
    /\ last' = Done(c, generateTextCatch(message), 0)
    /\ inflight' = inflight \ {c}
    /\ UNCHANGED <<models, initialized, sessions, inbox, posted, started, loadedOk, stale>>

RunFailures == {"session.run rejected", "No output tensor found in model results"}

\* ------------------------------------------------------------ analyzeDocument
\* The document only flows into the prompt and into the preview that is
\* returned; neither is looked at by the worker, so the model leaves them out.
AnalysisTypes == {"summary", "keywords", "sentiment", "classification"}

\* performance.now() - startTime, in the clock's resolution
ElapsedTimes == 0..MaxElapsed

\* faulty variant of analysis: the result is filed under the summary key
analysisAsSummary(analysisType, result, processingTime, modelName) ==
    [type |-> analysisType, results |-> [key |-> "summary", value |-> << "Summary: " >> \o result],
     processingTime |-> processingTime, modelUsed |-> modelName]

\* the object analyzeDocument returns after the generation
analysis(analysisType, result, processingTime, modelName) ==
    [type |-> analysisType, results |-> [key |-> analysisType, value |-> result],
     processingTime |-> processingTime, modelUsed |-> modelName]

\* the catch block of analyzeDocument: the graceful error response
analyzeDocumentCatch(analysisType, message, modelName) ==
    [type |-> analysisType,
     results |-> [key |-> analysisType, value |-> << "[Analysis Error: ", message, "]" >>],
     processingTime |-> 0, modelUsed |-> modelName]

\* analyzeDocument up to the await of session.run inside the generateText it
\* calls: generateText looks the model up again in the same turn, so it finds
\* what analyzeDocument found
AnalyzeDocumentBegin(c) ==
    /\ Dispatch("analyzeDocument", c)
    /\ IF ~MapHas(models, c.id)
       THEN /\ last' = [Done(Began(c), RetObject, 0) EXCEPT
                           !.analysis = analyzeDocumentCatch(c.analysisType, "Model not loaded", c.id)]
            /\ UNCHANGED inflight
       ELSE /\ inflight' = inflight \cup
                   {[Began(c) EXCEPT !.pc = "running", !.sess = MapGet(models, c.id)]}
            /\ UNCHANGED last
    /\ UNCHANGED <<models, initialized, sessions, loadedOk, stale>>

\* the generateText called by analyzeDocument returned result
AnalyzeDocumentResumes(c, result, elapsed) ==
    /\ c \in inflight
    /\ c.op = "analyzeDocument"
    /\ c.pc = "running"
    /\ last' = [Done(c, RetObject, 0) EXCEPT
                   !.inner = result,
                   !.analysis = analysis(c.analysisType, result, elapsed, c.id)]
    /\ inflight' = inflight \ {c}
    /\ UNCHANGED <<models, initialized, sessions, inbox, posted, started, loadedOk, stale>>

\* session.run resolved with an output tensor inside the generateText called
\* by analyzeDocument
AnalyzeDocumentReturns(c, sampled, elapsed) ==
    AnalyzeDocumentResumes(c, generatedString(sampled, AnalysisMaxTokens), elapsed)

\* session.run rejected or gave no output tensor inside the generateText
\* called by analyzeDocument: generateText returns its diagnostic string
AnalyzeDocumentRunFails(c, message, elapsed) ==
    AnalyzeDocumentResumes(c, generateTextCatch(message).text, elapsed)

\* ------------------------------------------------------------ cleanup
\* the catch block of cleanup
cleanupCatch == RetVoid

LiveKeys(m) == {m[i].key : i \in {j \in 1..Len(m) : m[j] # Tomb}}

\* the sweep of call old, now in state c, moves to the entry at position nxt of
\* the map m, or ends.  The
\* entry comes from the live iterator, so unloadModel finds it and invokes
\* release on its session.
Sweep(old, c, m, ss, nxt) ==
    IF nxt = 0
    THEN /\ last' = Done(c, RetVoid, 0)
         /\ inflight' = inflight \ {old}
         /\ sessions' = ss
    ELSE /\ sessions' = InvokeRelease(ss, m[nxt].sess)
         /\ inflight' = (inflight \ {old}) \cup
                {[c EXCEPT !.pc = "releasing", !.it = nxt, !.id = m[nxt].key,
                           !.sess = m[nxt].sess, !.visited = @ \cup {m[nxt].key}]}
         /\ UNCHANGED last

\* cleanup up to the await of the first unloadModel, which is suspended in turn
\* at its await of session.release
CleanupBegin(c) ==
    /\ Dispatch("cleanup", c)
    /\ loadedOk' = {}
    /\ Sweep(c, [c EXCEPT !.atStart = LiveKeys(models)], models, sessions, MapNext(models, 0))
    /\ UNCHANGED <<models, initialized, stale>>

\* the release awaited by the unloadModel of the sweep resolved: the entry is
\* deleted, unloadModel returns true and the iterator moves on
CleanupReleased(c) ==
    /\ c \in inflight
    /\ c.op = "cleanup"
    /\ c.pc = "releasing"
    /\ models' = MapDelete(models, c.id)
    /\ Sweep(c, c, models', Released(sessions, c.sess), MapNext(models', c.it))
    /\ UNCHANGED <<initialized, inbox, posted, started, loadedOk, stale>>

\* the release awaited by the unloadModel of the sweep rejected: unloadModel's
\* catch block decides whether the sweep goes on
CleanupReleaseFailed(c) ==
    /\ c \in inflight
    /\ c.op = "cleanup"
    /\ c.pc = "releasing"
    /\ LET d == [c EXCEPT !.failed = @ \cup {c.id}]
       IN  IF unloadModelCatch.kind = "throw"
           THEN /\ last' = Done(d, cleanupCatch, 0)
                /\ inflight' = inflight \ {c}
                /\ UNCHANGED sessions
           ELSE Sweep(c, d, models, sessions, MapNext(models, c.it))
    /\ UNCHANGED <<models, initialized, inbox, posted, started, loadedOk, stale>>

\* ------------------------------------------------------------ getLoadedModels
GetLoadedModels(c) ==
    /\ Dispatch("getLoadedModels", c)
    /\ last' = Done(c, RetList(getLoadedModels), 0)
    /\ UNCHANGED <<models, initialized, sessions, inflight, loadedOk, stale>>

\* ------------------------------------------------------------ specification
Queued == {inbox[i] : i \in 1..Len(inbox)}

Next ==
    \/ \E m \in Messages : Post(m) /\ UNCHANGED aux
    \/ \E c \in Queued : LoadModelBegin(c) /\ UNCHANGED aux
    \/ \E c \in inflight : LoadModelCreated(c) /\ UNCHANGED aux
    \/ \E c \in inflight : LoadModelFailed(c) /\ UNCHANGED aux
    \/ \E c \in Queued : UnloadModelBegin(c) /\ UNCHANGED aux
    \/ \E c \in inflight : UnloadModelReleased(c) /\ UNCHANGED aux
    \/ \E c \in inflight : UnloadModelFailed(c) /\ UNCHANGED aux
    \/ \E c \in Queued : GenerateTextBegin(c) /\ UNCHANGED aux
    \/ \E c \in inflight, t \in SampledTokens : GenerateTextReturns(c, t) /\ UNCHANGED aux
    \/ \E c \in inflight, e \in RunFailures : GenerateTextFails(c, e) /\ UNCHANGED aux
    \/ \E c \in Queued : CleanupBegin(c) /\ UNCHANGED aux
    \/ \E c \in inflight : CleanupReleased(c) /\ UNCHANGED aux
    \/ \E c \in inflight : CleanupReleaseFailed(c) /\ UNCHANGED aux
    \/ \E c \in Queued : GetLoadedModels(c) /\ UNCHANGED aux

Spec == Init /\ [][Next]_vars

\* ------------------------------------------------- document analysis sessions
\* a host that loads and unloads models, generates text and analyzes documents
AnalysisMessages ==
    [op : {"loadModel", "unloadModel"}, id : ModelIds, n : {0}, analysisType : {NoType}]
    \cup [op : {"generateText"}, id : ModelIds, n : {1}, analysisType : {NoType}]
    \cup [op : {"analyzeDocument"}, id : ModelIds, n : {0}, analysisType : AnalysisTypes]

AnalysisPost(m) ==
    /\ posted < MaxAnalysisCalls
    /\ Len(inbox) < MaxInbox
    /\ posted' = posted + 1
    /\ inbox' = Append(inbox, [Call(posted + 1, m.op, m.id, m.n) EXCEPT
                                  !.analysisType = m.analysisType])
    /\ UNCHANGED <<models, initialized, sessions, started, inflight, last, loadedOk, stale>>

AnalysisNext ==
    \/ \E m \in AnalysisMessages : AnalysisPost(m) /\ UNCHANGED aux
    \/ \E c \in Queued : LoadModelBegin(c) /\ UNCHANGED aux
    \/ \E c \in inflight : LoadModelCreated(c) /\ UNCHANGED aux
    \/ \E c \in inflight : LoadModelFailed(c) /\ UNCHANGED aux
    \/ \E c \in Queued : UnloadModelBegin(c) /\ UNCHANGED aux
    \/ \E c \in inflight : UnloadModelReleased(c) /\ UNCHANGED aux
    \/ \E c \in inflight : UnloadModelFailed(c) /\ UNCHANGED aux
    \/ \E c \in Queued : GenerateTextBegin(c) /\ UNCHANGED aux
    \/ \E c \in inflight, t \in SampledTokens : GenerateTextReturns(c, t) /\ UNCHANGED aux
    \/ \E c \in inflight, e \in RunFailures : GenerateTextFails(c, e) /\ UNCHANGED aux
    \/ \E c \in Queued : AnalyzeDocumentBegin(c) /\ UNCHANGED aux
    \/ \E c \in inflight, t \in SampledTokens, ms \in ElapsedTimes : AnalyzeDocumentReturns(c, t, ms) /\ UNCHANGED aux
    \/ \E c \in inflight, e \in RunFailures, ms \in ElapsedTimes : AnalyzeDocumentRunFails(c, e, ms) /\ UNCHANGED aux

AnalysisSpec == Init /\ [][AnalysisNext]_vars

\* ------------------------------------------------------- tokenizer sessions
\* A tokenizer is handed a text; it is encoded, the ids are decoded, the
\* result is encoded again, and so on.
TextAtoms == {"Hello", "the", "world", "I", "<pad>", "<unk>", ".", "?", " ", "\n"}

IsWord(a) == a \notin Punctuation /\ a \notin Whitespace

\* the texts of at most MaxTextLen atoms
Texts ==
    LET seqs == UNION {[1..n -> TextAtoms] : n \in 0..MaxTextLen}
    IN  {t \in seqs : \A i \in 1..(Len(t) - 1) : ~(IsWord(t[i]) /\ IsWord(t[i + 1]))}

TokInit ==
    /\ WorkerInit
    /\ tok \in {[pc |-> "text", x |-> t, text |-> t, ids |-> << >>, encoded |-> << >>] : t \in Texts}
    /\ stream = NoStream
    /\ samp = NoSamp
    /\ svc = NoSvc
    /\ soft = NoSoft
    /\ LibIdle

\* tokenizer.encode(text); encoded keeps every result of encode so far
Encode ==
    /\ tok.pc = "text"
    /\ Len(tok.encoded) < MaxEncodes
    /\ tok' = [tok EXCEPT !.pc = "ids", !.ids = encode(tok.text),
                          !.encoded = Append(@, encode(tok.text))]
    /\ UNCHANGED <<worker, stream, samp, svc, soft, lib>>

\* tokenizer.decode(ids)
Decode ==
    /\ tok.pc = "ids"
    /\ tok' = [tok EXCEPT !.pc = "text", !.text = decode(tok.ids)]
    /\ UNCHANGED <<worker, stream, samp, svc, soft, lib>>

TokNext ==
    \/ Encode
    \/ Decode

TokSpec == TokInit /\ [][TokNext]_vars

\* ------------------------------------------- ONNXInferenceEngine.generateStream
\* One call of generateStream.  setup says what the generator finds when it is
\* first resumed; optMax is options.maxTokens (0: not given), cfgMax is
\* config.maxTokens.  steps counts the calls of sampleToken and runs the calls
\* of session.run.
StreamSetups == {"ok", "no model selected", "no session", "no configuration"}

\* the prompts: "the" and "Hello."
StreamPrompts == {encode(<< "the" >>), encode(<< "Hello", "." >>)}

\* the token ids sampleToken may return in the model: <pad>, the, "."
StreamTokens == {0, 5, 60}

\* options.stopSequences: none, the full stop, or "the." (two tokens long)
StreamStops == {{}, {<< "." >>}, {<< "the", "." >>}}

StreamInit ==
    /\ WorkerInit
    /\ tok = NoTok
    /\ samp = NoSamp
    /\ svc = NoSvc
    /\ soft = NoSoft
    /\ LibIdle
    /\ stream \in {[NoStream EXCEPT !.pc = "start", !.setup = su, !.optMax = o, !.cfgMax = c,
                                      !.stopSequences = st, !.currentTokens = p,
                                      !.inputTokens = p] :
                       su \in StreamSetups, o \in 0..MaxStreamTokens, c \in 1..MaxConfigTokens,
                       st \in StreamStops, p \in StreamPrompts}

\* Math.min(options.maxTokens || config.maxTokens, config.maxTokens)
streamMaxTokens(optMax, cfgMax) ==
    LET requested == IF optMax = 0 THEN cfgMax ELSE optMax
    IN  IF requested < cfgMax THEN requested ELSE cfgMax

\* faulty variant of loopContinues: the loop has no bound of its own
loopUnbounded(i, maxTokens) == TRUE

\* for (let i = 0; i < maxTokens; i++)
loopContinues(i, maxTokens) == i < maxTokens

\* String.includes on texts
includes(text, seq) ==
    \E k \in 0..(Len(text) - Len(seq)) : SubSeq(text, k + 1, k + Len(seq)) = seq

isStopToken(token, stopSequences) ==
    IF stopSequences = {} THEN FALSE
    ELSE \E seq \in stopSequences : includes(decode(<< token >>), seq)

\* faulty variant of inputIds: only the newest token is fed
inputIdsLastOnly(currentTokens) ==
    IF currentTokens = << >> THEN << >>
    ELSE << currentTokens[Len(currentTokens)] >>

\* BigInt64Array.from(currentTokens.map(t => BigInt(t))), shape
\* [1, currentTokens.length]: the tensor holds every current token
inputIds(currentTokens) == currentTokens

\* the head of the loop, with s the state of the generator: either the next
\* forward pass is started and awaited, or the loop and the generator end
LoopHead(s) ==
    IF loopContinues(s.i, s.maxTokens)
    THEN [s EXCEPT !.pc = "running", !.runs = @ + 1,
                   !.fed = inputIds(s.currentTokens)]
    ELSE [s EXCEPT !.pc = "done"]

\* the consumer resumes the generator for the first time
StreamBegin ==
    /\ stream.pc = "start"
    /\ stream' = IF stream.setup # "ok"
                 THEN [stream EXCEPT !.pc = "threw"]
                 ELSE LoopHead([stream EXCEPT
                          !.maxTokens = streamMaxTokens(stream.optMax, stream.cfgMax)])
    /\ UNCHANGED <<worker, tok, samp, svc, soft, lib>>

\* session.run resolved with an output tensor and sampleToken returned
\* nextToken: a stop token ends the loop, any other is pushed and its text is
\* yielded
StreamRunResolved(nextToken) ==
    /\ stream.pc = "running"
    /\ stream' = IF isStopToken(nextToken, stream.stopSequences)
                 THEN [stream EXCEPT !.pc = "done", !.steps = @ + 1,
                                     !.sampled = Append(@, nextToken)]
                 ELSE [stream EXCEPT !.pc = "yielded", !.steps = @ + 1,
                                     !.sampled = Append(@, nextToken),
                                     !.currentTokens = Append(@, nextToken),
                                     !.yielded = Append(@, decode(<< nextToken >>))]
    /\ UNCHANGED <<worker, tok, samp, svc, soft, lib>>

\* session.run resolved without any output tensor: break
StreamNoOutput ==
    /\ stream.pc = "running"
    /\ stream' = [stream EXCEPT !.pc = "done"]
    /\ UNCHANGED <<worker, tok, samp, svc, soft, lib>>

\* session.run rejected: the catch block throws "Streaming inference failed"
StreamRunRejected ==
    /\ stream.pc = "running"
    /\ stream' = [stream EXCEPT !.pc = "threw"]
    /\ UNCHANGED <<worker, tok, samp, svc, soft, lib>>

\* the consumer resumes the generator after a yield: the length guard, i++,
\* and the head of the loop
StreamResume ==
    /\ stream.pc = "yielded"
    /\ stream' = IF Len(stream.currentTokens) > stream.cfgMax
                 THEN [stream EXCEPT !.pc = "done"]
                 ELSE LoopHead([stream EXCEPT !.i = @ + 1])
    /\ UNCHANGED <<worker, tok, samp, svc, soft, lib>>

StreamNext ==
    \/ StreamBegin
    \/ \E t \in StreamTokens : StreamRunResolved(t)
    \/ StreamNoOutput
    \/ StreamRunRejected
    \/ StreamResume

StreamSpec == StreamInit /\ [][StreamNext]_vars

\* every forward pass settles and the consumer keeps resuming the generator
StreamLive == StreamSpec /\ WF_vars(StreamNext)

\* --------------------------------------------- ONNXInferenceEngine.sampleToken
\* ------------------------------------------------------ AIWorker.greedyDecode
\* One call of sampleToken (impl = "engine") or of the worker's greedyDecode
\* (impl = "worker"), from the probabilities the softmax produced.  The two
\* run the same steps, except that greedyDecode has no top-k step, rescales
\* only inside its top-p block, and ends with another fallback.  A
\* probability is a whole number of parts: probs[i] / denom.  The softmax
\* gives every token a share of the sum of the shares, and a token may get 0
\* (its exponential underflows) but not all of them (the largest logit gets
\* exp(0)).  Token i of the code is position i + 1 here.  topK = 0 and
\* topP = 0 stand for an option that is not given; topP is in hundredths.
RECURSIVE SumSeq(_)
SumSeq(s) == IF s = << >> THEN 0 ELSE Head(s) + SumSeq(Tail(s))

SoftmaxOutputs ==
    {w \in UNION {[1..n -> 0..MaxWeight] : n \in 1..MaxVocab} : \E i \in 1..Len(w) : w[i] > 0}

\* the distributions in which every probability is 0: what the fallback after
\* the sampling walk is written for
Collapsed == {[i \in 1..n |-> 0] : n \in 1..MaxVocab}

SamplerInputs == SoftmaxOutputs \cup Collapsed

TopKOptions == 0..MaxVocab
TopPOptions == {0, 50, 90, 100}

SampInit ==
    /\ WorkerInit
    /\ tok = NoTok
    /\ stream = NoStream
    /\ svc = NoSvc
    /\ soft = NoSoft
    /\ LibIdle
    /\ samp \in {[NoSamp EXCEPT !.pc = "softmax", !.impl = im, !.topK = k, !.topP = p,
                                  !.random = r, !.softmax = w, !.probs = w,
                                  !.denom = IF SumSeq(w) = 0 THEN 1 ELSE SumSeq(w)] :
                     im \in {"engine", "worker"}, k \in TopKOptions, p \in TopPOptions,
                     r \in 0..(RandomGrain - 1), w \in SamplerInputs}
    /\ samp.impl = "worker" => samp.topK = 0

\* .map((prob, index) => ({ prob, index })).sort((a, b) => b.prob - a.prob):
\* the positions by descending probability; the sort is stable, so equal
\* probabilities stay in index order
sortedIndices(probs) ==
    LET before(j, i) == probs[j] > probs[i] \/ (probs[j] = probs[i] /\ j < i)
        rank(i) == Cardinality({j \in 1..Len(probs) : before(j, i)}) + 1
    IN  [r \in 1..Len(probs) |-> CHOOSE i \in 1..Len(probs) : rank(i) = r]

\* faulty variant of topKIndices: one position too many is kept
topKIndicesOneMore(probs, topK) ==
    LET sorted == sortedIndices(probs)
    IN  {sorted[r] : r \in {q \in 1..Len(probs) : q <= topK + 1}}

\* .slice(0, topK).map(item => item.index)
topKIndices(probs, topK) ==
    LET sorted == sortedIndices(probs)
    IN  {sorted[r] : r \in {q \in 1..Len(probs) : q <= topK}}

\* the top-p loop: walk the sorted positions, add up, stop as soon as the
\* sum reaches topP (cumulativeProb >= topP, with topP in hundredths)
nucleusIndices(probs, denom, topP) ==
    LET sorted == sortedIndices(probs)
        cum(m) == SumSeq([r \in 1..m |-> probs[sorted[r]]])
        reached == {m \in 1..Len(probs) : cum(m) * 100 >= topP * denom}
        stop == IF reached = {} THEN Len(probs)
                ELSE CHOOSE m \in reached : \A x \in reached : m <= x
    IN  {sorted[r] : r \in 1..stop}

\* probs[i] = 0 for every position that is not kept
zeroOutside(probs, kept) == [i \in 1..Len(probs) |-> IF i \in kept THEN probs[i] ELSE 0]

\* if (topK && topK > 0): zero all but the topK largest; nothing is rescaled
ApplyTopK ==
    /\ samp.pc = "softmax"
    /\ samp' = [samp EXCEPT
                   !.pc = "topK",
                   !.probs = IF samp.topK > 0
                             THEN zeroOutside(@, topKIndices(@, samp.topK))
                             ELSE @]
    /\ UNCHANGED <<worker, tok, stream, svc, soft, lib>>

\* if (topP && topP > 0 && topP < 1): zero everything outside the nucleus
ApplyTopP ==
    /\ samp.pc = "topK"
    /\ LET filtering == samp.topP > 0 /\ samp.topP < 100
           kept == IF filtering
                   THEN nucleusIndices(samp.probs, samp.denom, samp.topP)
                   ELSE 1..Len(samp.probs)
       IN  samp' = [samp EXCEPT !.pc = "topP",
                                !.beforeTopP = samp.probs,
                                !.nucleusIndices = kept,
                                !.probs = zeroOutside(@, kept)]
    /\ UNCHANGED <<worker, tok, stream, svc, soft, lib>>

\* faulty variant of renormalized: the probabilities are left as they are
notRenormalized(probs, denom) == denom

\* if (totalProb > 0) probs[i] /= totalProb: the parts stay, the whole becomes
\* their sum
renormalized(probs, denom) == IF SumSeq(probs) > 0 THEN SumSeq(probs) ELSE denom

\* sampleToken rescales after the two filters; greedyDecode rescales at the
\* end of its top-p block, so only when that block ran
Renormalize ==
    /\ samp.pc = "topP"
    /\ LET filtering == samp.topP > 0 /\ samp.topP < 100
       IN  samp' = [samp EXCEPT !.pc = "normalized",
                                !.denom = IF samp.impl = "engine" \/ filtering
                                          THEN renormalized(samp.probs, @)
                                          ELSE @]
    /\ UNCHANGED <<worker, tok, stream, svc, soft, lib>>

\* the walk of Math.random() (random / RandomGrain here) against the running
\* sum: the first position with random <= cumulativeProb, 0 when there is none
walkHit(probs, denom, random) ==
    LET cum(m) == SumSeq(SubSeq(probs, 1, m))
        hit == {i \in 1..Len(probs) : random * denom <= cum(i) * RandomGrain}
    IN  IF hit = {} THEN 0
        ELSE CHOOSE i \in hit : \A x \in hit : i <= x

\* probs.indexOf(Math.max(...probs)): the first position of the largest value
argmax(probs) ==
    CHOOSE i \in 1..Len(probs) :
        /\ \A j \in 1..Len(probs) : probs[j] <= probs[i]
        /\ \A j \in 1..(i - 1) : probs[j] < probs[i]

\* the end of sampleToken: the walk, else "return probs.length - 1"
sampleWalk(probs, denom, random) ==
    IF walkHit(probs, denom, random) = 0 THEN Len(probs)
    ELSE walkHit(probs, denom, random)

\* the end of greedyDecode: the walk, else the argmax
greedyWalk(probs, denom, random) ==
    IF walkHit(probs, denom, random) = 0 THEN argmax(probs)
    ELSE walkHit(probs, denom, random)

Sample ==
    /\ samp.pc = "normalized"
    /\ samp' = [samp EXCEPT !.pc = "sampled",
                            !.token = IF samp.impl = "engine"
                                      THEN sampleWalk(samp.probs, samp.denom, samp.random)
                                      ELSE greedyWalk(samp.probs, samp.denom, samp.random)]
    /\ UNCHANGED <<worker, tok, stream, svc, soft, lib>>

SampNext ==
    \/ ApplyTopK
    \/ ApplyTopP
    \/ Renormalize
    \/ Sample

SampSpec == SampInit /\ [][SampNext]_vars

\* ======================================================================
\* Properties
\* ======================================================================
Count(q, x) == Cardinality({i \in 1..Len(q) : q[i] = x})

InMap(s) == \E i \in 1..Len(models) : models[i] # Tomb /\ models[i].sess = s

Creating(id) == {c \in inflight : c.op = "loadModel" /\ c.pc = "creating" /\ c.id = id}

Unreleased(id) == {s \in 1..Len(sessions) : sessions[s].id = id /\ ~sessions[s].released}

\* C1: for every id, the sessions being created for it plus the sessions created
\* for it and not yet released are at most one, in every reachable state.
OneSessionPerId ==
    \A id \in ModelIds : Cardinality(Creating(id)) + Cardinality(Unreleased(id)) <= 1

\* C2: while id is in loadedOk (a loadModel(id) returned true and no
\* unloadModel(id) or cleanup has begun or was in flight since), getLoadedModels
\* lists id exactly once, and a loadModel(id) that is dispatched returns true in
\* the same step without creating or starting to create a session.
LoadIdempotent ==
    [][\A id \in loadedOk :
          /\ Count(getLoadedModels, id) = 1
          /\ (/\ started' # started
              /\ \E c \in Queued : c.seq = started' /\ c.op = "loadModel" /\ c.id = id)
             => /\ last'.op = "loadModel" /\ last'.id = id /\ last'.pc = "start"
                /\ last'.kind = "bool" /\ last'.b
                /\ sessions' = sessions
                /\ inflight' = inflight
                /\ models' = models]_vars

\* C2 witness: two calls were made, the first loaded the model, the second
\* loadModel of the same id returned true at once, and one session exists.
SecondLoadReturnedTrue ==
    /\ posted = 2 /\ started = 2 /\ inflight = {}
    /\ Len(sessions) = 1
    /\ last.op = "loadModel" /\ last.pc = "start" /\ last.kind = "bool" /\ last.b
    /\ last.id \in loadedOk
    /\ getLoadedModels = << last.id >>

\* C3: release() is invoked at most once on every session, and a session that
\* is no longer in the map has had release() invoked on it.
ReleasedExactlyOnce ==
    \A s \in 1..Len(sessions) :
        /\ sessions[s].releases <= 1
        /\ (~InMap(s) => sessions[s].releases >= 1)

\* C4 (as claimed): right after an unloadModel(id) that found id loaded has
\* completed, id is not in the map, whatever release() did.
UnloadRemovesRegardless ==
    (last.op = "unloadModel" /\ last.pc = "releasing") => ~MapHas(models, last.id)

\* C4 (amended): an unloadModel(id) that found id loaded has invoked release()
\* on the session; when it completes it resolves to a boolean; if that is true
\* the entry of id is gone, if it is false (release() failed) the map is as it
\* was, so id stays loaded unless another call removed it.
UnloadRemovesOnSuccessOnly ==
    [][\A c \in inflight :
          (c.op = "unloadModel" /\ c \notin inflight')
          => /\ sessions[c.sess].releases >= 1
             /\ last'.op = "unloadModel" /\ last'.id = c.id /\ last'.kind = "bool"
             /\ IF last'.b THEN ~MapHas(models', c.id) ELSE models' = models]_vars

\* C4 witness: an unloadModel whose release() failed has completed with false
\* and the id is still loaded.
UnloadFailedKeepsEntry ==
    /\ last.op = "unloadModel" /\ last.pc = "releasing"
    /\ last.kind = "bool" /\ ~last.b
    /\ MapHas(models, last.id)
    /\ sessions[MapGet(models, last.id)].releases >= 1

\* C5: every generateText resolves to a string, and when no token was produced
\* (the id is not loaded, the forward pass failed or gave no output tensor) the
\* string starts with the marker "[Inference Error:".
GenerateTextNeverThrows ==
    last.op = "generateText"
    => /\ last.kind = "string"
       /\ (last.tokens = 0 => StartsWithMarker(last.text))

\* C5 witness: a generateText whose forward pass gave no output tensor has
\* resolved to the marked string.
GenerateTextNoOutputMarked ==
    /\ last.op = "generateText" /\ last.pc = "running"
    /\ last.kind = "string"
    /\ StartsWithMarker(last.text)
    /\ last.text[2] = "No output tensor found in model results"

\* C6: a generateText that did not fail (no stop sequence exists in this
\* runtime) has generated exactly maxTokens tokens.
MaxTokensGenerated ==
    (last.op = "generateText" /\ last.tokens > 0) => last.tokens = maxTokensOf(last)

\* C7 (as claimed): no call is suspended at an await when a later-arrived call
\* has begun, i.e. every suspended call is the one dispatched last.
NoOverlap ==
    \A c \in inflight : c.seq = started

\* C7 (amended): calls begin in arrival order: the messages not yet dispatched
\* are exactly the ones that arrived after the one dispatched last, in arrival
\* order, and every suspended call arrived no later than it.
FifoDispatch ==
    /\ \A i \in 1..Len(inbox) : inbox[i].seq = started + i
    /\ \A c \in inflight : c.seq <= started

\* C7 witness: an unloadModel that arrived after a generateText on the same id
\* has begun (release() is invoked) while the generateText awaits session.run.
UnloadBeganDuringGenerate ==
    \E c, d \in inflight :
        /\ c.op = "generateText" /\ c.pc = "running"
        /\ d.op = "unloadModel" /\ d.pc = "releasing"
        /\ d.id = c.id /\ d.sess = c.sess
        /\ c.seq < d.seq

\* C8: a completed cleanup resolved normally, and every model that was loaded
\* when it began was passed to unloadModel by the sweep, unless another call
\* unloaded it first (it is then no longer loaded).
CleanupSweepsAll ==
    last.op = "cleanup"
    => /\ last.kind = "void"
       /\ \A k \in last.atStart : k \in last.visited \/ ~MapHas(models, k)

\* C8 witness: a cleanup completed in which the release of the first entry
\* failed (the entry is still there) and a second model was still swept.
CleanupContinuedAfterFailure ==
    /\ last.op = "cleanup"
    /\ Len(models) >= 2 /\ models[1] # Tomb /\ models[1].key \in last.failed
    /\ Cardinality(last.visited) = 2
    /\ last.visited \subseteq last.atStart

\* C9 (as claimed): right after a cleanup completed with nothing else in
\* flight, no model is loaded.
CleanupLeavesNothing ==
    (last.op = "cleanup" /\ inflight = {}) => getLoadedModels = << >>

\* C9 (amended): right after a cleanup completed with nothing else in flight,
\* the only models still loaded are ones whose release() failed during the
\* sweep; if no release failed, no model is loaded.
CleanupLeavesOnlyFailed ==
    (last.op = "cleanup" /\ inflight = {}) => LiveKeys(models) \subseteq last.failed

\* C9 witness: a cleanup completed with nothing in flight; one model was
\* released and removed, another whose release failed is still loaded.
CleanupLeftFailedOnly ==
    /\ last.op = "cleanup" /\ inflight = {}
    /\ LiveKeys(models) # {}
    /\ LiveKeys(models) \subseteq last.failed
    /\ last.visited \ last.failed # {}

\* C10: every loadModel and unloadModel resolves to a boolean.
LoadUnloadResolveBoolean ==
    last.op \in {"loadModel", "unloadModel"} => last.kind = "bool"

\* C10 witness: a loadModel whose session creation failed resolved to false.
LoadFailedResolvedFalse ==
    /\ last.op = "loadModel" /\ last.pc = "creating"
    /\ last.kind = "bool" /\ ~last.b
    /\ ~MapHas(models, last.id)

\* C11: an unloadModel(id) that is dispatched while id is not in the map
\* resolves to false in the same step (it raises nothing) and leaves the map,
\* the sessions and the suspended calls as they were; the state it leaves is
\* again one where id is not in the map, so repeating it gives the same.
UnloadNotLoadedNoOp ==
    [][\A c \in Queued :
          (c.op = "unloadModel" /\ started' = c.seq /\ ~MapHas(models, c.id))
          => /\ last'.op = "unloadModel" /\ last'.id = c.id /\ last'.pc = "start"
             /\ last'.kind = "bool" /\ ~last'.b
             /\ models' = models
             /\ sessions' = sessions
             /\ inflight' = inflight
             /\ ~MapHas(models', c.id)]_vars

\* C11 witness: an unloadModel for an id that is not loaded has resolved to
\* false right after an unloadModel of the same id had resolved to false, and
\* nothing was ever allocated or stored.
UnloadNotLoadedTwice ==
    /\ last.op = "unloadModel" /\ last.pc = "start" /\ last.kind = "bool" /\ ~last.b
    /\ last.retry
    /\ models = << >> /\ sessions = << >>

\* C12: a loadModel whose session creation fails resolves to false and leaves
\* the map and the sessions exactly as they were; and every dispatched
\* loadModel(id) for an id that is not in the map goes on to create a session,
\* whatever happened to earlier calls, so a retry can succeed.
AllocationFailureRetryable ==
    [][/\ \A c \in inflight :
            (/\ c.op = "loadModel" /\ c.pc = "creating" /\ c \notin inflight'
             /\ Len(sessions') = Len(sessions))
            => /\ last'.op = "loadModel" /\ last'.id = c.id
               /\ last'.kind = "bool" /\ ~last'.b
               /\ models' = models
               /\ sessions' = sessions
       /\ \A c \in Queued :
            (c.op = "loadModel" /\ started' = c.seq /\ ~MapHas(models, c.id))
            => \E d \in inflight' :
                   d.seq = c.seq /\ d.op = "loadModel" /\ d.pc = "creating"]_vars

\* C12 witness: a loadModel that began right after a loadModel of the same id
\* had failed has created a session and resolved to true, and the id is loaded.
LoadSucceededAfterFailure ==
    /\ last.op = "loadModel" /\ last.pc = "creating"
    /\ last.kind = "bool" /\ last.b
    /\ last.retry
    /\ last.id \in loadedOk
    /\ getLoadedModels = << last.id >>

\* C13 (as claimed): a loadModel for an id that has no registered descriptor
\* resolves to false and allocates no session, so the id is never loaded.
UnregisteredLoadReturnsFalse ==
    /\ (last.op = "loadModel" /\ last.id \notin Registered) => (last.kind = "bool" /\ ~last.b)
    /\ \A s \in 1..Len(sessions) : sessions[s].id \in Registered
    /\ \A i \in 1..Len(getLoadedModels) : getLoadedModels[i] \in Registered

\* C14: a step in which a generateText or an analyzeDocument begins or
\* completes leaves the map and the sessions as they were; and a generateText
\* that is dispatched while its model is in the map reaches session.run on the
\* stored session, whatever earlier generations did.
GenerationLeavesMap ==
    [][/\ \A c \in Queued :
            (c.op \in {"generateText", "analyzeDocument"} /\ started' = c.seq)
            => /\ models' = models /\ sessions' = sessions
               /\ (c.op = "generateText" /\ MapHas(models, c.id))
                  => \E d \in inflight' :
                         /\ d.seq = c.seq /\ d.pc = "running"
                         /\ d.sess = MapGet(models, c.id)
       /\ \A c \in inflight :
            (c.op \in {"generateText", "analyzeDocument"} /\ c \notin inflight')
            => models' = models /\ sessions' = sessions]_vars

\* C14 witness: a generateText that began right after a generateText on the
\* same model had failed has returned generated text, and the model is still
\* the one stored in the map.
GenerateServedAfterFailure ==
    /\ last.op = "generateText" /\ last.pc = "running"
    /\ last.retry
    /\ last.kind = "string" /\ ~StartsWithMarker(last.text) /\ last.tokens > 0
    /\ getLoadedModels = << last.id >>
    /\ Len(sessions) = 1

\* C15: every analyzeDocument resolves to an object of the requested type for
\* the requested model; when the model was loaded, results holds under the
\* type exactly the string the generateText it called returned (generated
\* text or generateText's own diagnostic); when it was not loaded, results
\* holds an "[Analysis Error: ...]" string and processingTime is 0.
AnalyzeDelegatesToGenerate ==
    last.op = "analyzeDocument"
    => /\ last.kind = "object"
       /\ last.analysis.type = last.analysisType
       /\ last.analysis.modelUsed = last.id
       /\ last.analysis.results.key = last.analysisType
       /\ IF last.pc = "running"
          THEN /\ last.inner # NoText
               /\ last.analysis.results.value = last.inner
          ELSE /\ last.analysis.results.value[1] = "[Analysis Error: "
               /\ last.analysis.processingTime = 0

\* C15 witness: an analyzeDocument of kind keywords on a loaded model has
\* returned the generated word as results.keywords.
AnalyzeReturnedGeneratedText ==
    /\ last.op = "analyzeDocument" /\ last.pc = "running"
    /\ last.analysisType = "keywords"
    /\ last.inner = << "the" >>
    /\ last.analysis.results = [key |-> "keywords", value |-> << "the" >>]

\* C15 witness: an analyzeDocument on a model that is not loaded has returned
\* the error response.
AnalyzeNotLoadedReturnedError ==
    /\ last.op = "analyzeDocument" /\ last.pc = "start"
    /\ last.kind = "object"
    /\ last.analysis.results.value[1] = "[Analysis Error: "
    /\ last.analysis.processingTime = 0

\* the surface tokens of a text: its atoms other than whitespace, lower-cased
SurfaceTokens(text) ==
    LET notSpace(a) == a \notin Whitespace
    IN  SelectSeq(toLowerCase(text), notSpace)

VocabularyWords == {commonTokens[i] : i \in 1..Len(commonTokens)}

IdOf(w) == CHOOSE k \in 0..(Len(commonTokens) - 1) : commonTokens[k + 1] = w

\* C17: every id encode has returned is in [0, vocabSize); the ids of the text
\* x are, in order, those of its surface tokens: the vocabulary id of a token
\* that is in the vocabulary and the id 1 of "<unk>" for any other token; the
\* empty text gives the empty sequence.
EncodeTotalInRange ==
    /\ \A k \in 1..Len(tok.encoded) : \A i \in 1..Len(tok.encoded[k]) :
           tok.encoded[k][i] >= 0 /\ tok.encoded[k][i] < Len(commonTokens)
    /\ Len(tok.encoded) >= 1
       => LET ids == tok.encoded[1]
              surface == SurfaceTokens(tok.x)
          IN  /\ Len(ids) = Len(surface)
              /\ \A i \in 1..Len(ids) :
                    IF surface[i] \in VocabularyWords
                    THEN commonTokens[ids[i] + 1] = surface[i]
                    ELSE ids[i] = 1

\* C17 witness: "I Hello" was encoded: the surface token i is not in the
\* vocabulary and got the id of <unk>, hello got its own id.
EncodedUnknownToUnk ==
    /\ tok.x = << "I", " ", "Hello" >>
    /\ tok.encoded = << << 1, 57 >> >>

\* C17 witness: the empty text was encoded to the empty sequence.
EncodedEmptyText ==
    /\ tok.x = << >>
    /\ tok.encoded = << << >> >>

\* C18: with t the second result of encode, i.e. encode(decode(encode(x))),
\* the third result encode(decode(t)) equals t.
RoundTripFixedPoint ==
    Len(tok.encoded) >= 3 => tok.encoded[3] = tok.encoded[2]

\* C18 witness: three encodings were made of a text whose first round trip
\* lost a token (decode(encode(x)) is not x and encode(x) is not t), and the
\* second round trip gave the non-empty t again.
RoundTripStableAfterLoss ==
    /\ Len(tok.encoded) = 3
    /\ tok.encoded[1] # tok.encoded[2]
    /\ tok.encoded[2] # << >>
    /\ tok.encoded[3] = tok.encoded[2]

\* C19: for a text x whose surface tokens are all in the vocabulary, encode(x)
\* is the sequence of their vocabulary ids, one per word and one per
\* punctuation mark, in order; and decode of these ids is the surface tokens
\* other than <pad>, <s>, </s>, in order, separated by single spaces.
EncodeDecodeKnownText ==
    LET surface == SurfaceTokens(tok.x)
        kept(w) == w \notin {"<pad>", "<s>", "</s>"}
        words == SelectSeq(surface, kept)
    IN  (/\ Len(tok.encoded) >= 1
         /\ \A i \in 1..Len(surface) : surface[i] \in VocabularyWords)
        => /\ tok.encoded[1] = [i \in 1..Len(surface) |-> IdOf(surface[i])]
           /\ (Len(tok.encoded) = 1 /\ tok.pc = "text")
              => /\ Len(tok.text) = (IF words = << >> THEN 0 ELSE 2 * Len(words) - 1)
                 /\ \A i \in 1..Len(tok.text) :
                       tok.text[i] = (IF i % 2 = 1 THEN words[(i + 1) \div 2] ELSE " ")

\* C19 witness: "Hello.<pad>" was encoded to the ids of hello, "." and <pad>
\* and decoded to "hello .".
DecodedHelloDot ==
    /\ tok.x = << "Hello", ".", "<pad>" >>
    /\ tok.encoded = << << 57, 60, 0 >> >>
    /\ tok.pc = "text"
    /\ tok.text = << "hello", " ", "." >>

\* C16: a generateStream never makes more sampling steps than its maxTokens
\* (options.maxTokens when given, and never more than config.maxTokens), and
\* when every forward pass settles and the consumer keeps reading, the
\* generation ends: the loop is left or the generator throws.
DecodeLoopTerminates ==
    /\ [](/\ stream.steps <= stream.cfgMax
          /\ stream.optMax > 0 => stream.steps <= stream.optMax
          /\ stream.runs <= stream.steps + 1)
    /\ <>(stream.pc \in {"done", "threw"})

\* C16 witness: a generation with options.maxTokens = 2 under a larger
\* config.maxTokens and no stop sequence has ended after exactly two steps.
StreamEndedAtMaxTokens ==
    /\ stream.pc = "done"
    /\ stream.optMax = 2 /\ stream.cfgMax = 3
    /\ stream.stopSequences = {}
    /\ stream.steps = 2 /\ stream.runs = 2 /\ stream.i = 2
    /\ Len(stream.yielded) = 2

\* C16 witness: a generation ended at its first step because the sampled
\* token was a stop token.
StreamEndedAtStop ==
    /\ stream.pc = "done"
    /\ stream.optMax = 3 /\ stream.cfgMax = 3
    /\ stream.steps = 1 /\ stream.yielded = << >>
    /\ stream.runs = 1

\* C20 (as claimed): once the top-p step has run with topP set, the positions
\* it kept are a prefix of the descending order of the probabilities that
\* entered the step, their probabilities add up to at least topP, no shorter
\* prefix does, and every other position has probability zero.
NucleusIsShortestPrefix ==
    (samp.pc \in {"topP", "normalized", "sampled"} /\ samp.topP > 0)
    => LET pre == samp.beforeTopP
           kept == samp.nucleusIndices
           mass(S) == SumSeq([i \in 1..Len(pre) |-> IF i \in S THEN pre[i] ELSE 0])
           total == SumSeq(samp.softmax)
       IN  /\ mass(kept) * 100 >= samp.topP * total
           /\ \A i \in kept : \A j \in (1..Len(pre)) \ kept : pre[i] >= pre[j]
           /\ \A i \in kept :
                 (mass(kept \ {i}) * 100 >= samp.topP * total) => pre[i] = 0
           /\ \A j \in (1..Len(pre)) \ kept : samp.probs[j] = 0

\* C20 (without top-k): the same, for the calls in which topK is not given,
\* as in AIWorker.greedyDecode, which has no top-k step.
NucleusIsShortestPrefixNoTopK ==
    samp.topK = 0 => NucleusIsShortestPrefix

\* C20 witness of the failing case: top-k kept one token of probability 1/3
\* and top-p 0.9 then kept every position, with a mass of 1/3.
NucleusBelowTopP ==
    /\ samp.pc = "topP"
    /\ samp.softmax = << 1, 1, 1 >> /\ samp.topK = 1 /\ samp.topP = 90
    /\ samp.beforeTopP = << 1, 0, 0 >>
    /\ samp.nucleusIndices = {1, 2, 3}

\* C21 (as claimed): the sampled position is the first one whose cumulative
\* probability reaches the draw, and when every probability handed to the
\* sampler is zero the result is the argmax position, whatever the draw.
SamplingFallsBackToArgmax ==
    samp.pc = "sampled"
    => LET cum(m) == SumSeq(SubSeq(samp.probs, 1, m))
           reached(i) == samp.random * samp.denom <= cum(i) * RandomGrain
       IN  /\ \A i \in 1..Len(samp.probs) :
                 (reached(i) /\ \A j \in 1..(i - 1) : ~reached(j)) => samp.token = i
           /\ SumSeq(samp.probs) = 0 => samp.token = argmax(samp.probs)

\* C21 (the worker alone): the same, for the calls of AIWorker.greedyDecode.
WorkerFallsBackToArgmax ==
    samp.impl = "worker" => SamplingFallsBackToArgmax

\* C21 witness of the failing case: sampleToken was handed three zero
\* probabilities and a draw above 0, and returned the last position.
CollapsedReturnedLast ==
    /\ samp.pc = "sampled" /\ samp.impl = "engine"
    /\ samp.probs = << 0, 0, 0 >> /\ samp.random > 0
    /\ samp.token = 3

\* ---------------------------------------------------------------------
\* AIService.initialize(), AIService.cleanup() and the AIWorker objects
\* behind the Workers the service creates
\* ---------------------------------------------------------------------

\* calls made on the service and on its workers in one behaviour
MaxServiceCalls == 4

\* a guard that never sees the flag
neverInitialized(flag) == FALSE

\* if (this.initialized) return;  the first statement of both initialize()
alreadyInitialized(flag) == flag

\* const aiWorker = new AIWorker() in a Worker just created
NewWorker == [initialized |-> FALSE, initializeCalls |-> 0, bodyRuns |-> 0,
              terminated |-> FALSE]

\* export const aiService = new AIService()
ServiceInit ==
    /\ WorkerInit
    /\ tok = NoTok
    /\ stream = NoStream
    /\ samp = NoSamp
    /\ soft = NoSoft
    /\ LibIdle
    /\ svc = [pc |-> "service", initialized |-> FALSE, worker |-> 0,
              aiWorker |-> 0, workers |-> << >>, fetches |-> 0,
              calls |-> {}, issued |-> 0, last |-> "none"]

\* AIWorker.initialize() of worker w
workerInitialize(workers, w) ==
    IF alreadyInitialized(workers[w].initialized)
    THEN [workers EXCEPT ![w].initializeCalls = @ + 1]
    ELSE [workers EXCEPT ![w].initializeCalls = @ + 1,
                         ![w].initialized = TRUE,
                         ![w].bodyRuns = @ + 1]

\* AIService.initialize() up to its first await: the fetch of models.json
ServiceInitialize ==
    /\ svc.pc = "service"
    /\ svc.issued < MaxServiceCalls
    /\ IF alreadyInitialized(svc.initialized)
       THEN svc' = [svc EXCEPT !.issued = @ + 1,
                               !.last = "initialize returned early"]
       ELSE svc' = [svc EXCEPT !.issued = @ + 1,
                               !.fetches = @ + 1,
                               !.calls = @ \cup {[n |-> svc.issued + 1,
                                                  pc |-> "fetching", w |-> 0]},
                               !.last = "initialize began"]
    /\ UNCHANGED <<worker, tok, stream, samp, soft, lib>>

\* loadModelConfigurations() settles (its catch installs the defaults), and
\* the Worker is created, wrapped and sent initialize()
ServiceCreatesWorker(c) ==
    /\ svc.pc = "service"
    /\ c \in svc.calls
    /\ c.pc = "fetching"
    /\ LET w == Len(svc.workers) + 1
       IN svc' = [svc EXCEPT !.workers = Append(@, NewWorker),
                             !.worker = w,
                             !.aiWorker = w,
                             !.calls = (@ \ {c}) \cup
                                 {[c EXCEPT !.pc = "initializing", !.w = w]}]
    /\ UNCHANGED <<worker, tok, stream, samp, soft, lib>>

\* the worker runs initialize() and the service's await resumes; a Worker
\* terminated in the meantime never answers
ServiceInitialized(c) ==
    /\ svc.pc = "service"
    /\ c \in svc.calls
    /\ c.pc = "initializing"
    /\ ~svc.workers[c.w].terminated
    /\ svc' = [svc EXCEPT !.workers = workerInitialize(@, c.w),
                          !.initialized = TRUE,
                          !.calls = @ \ {c},
                          !.last = "initialize succeeded"]
    /\ UNCHANGED <<worker, tok, stream, samp, soft, lib>>

\* a loadModel message reaches worker w: await this.initialize()
WorkerLoadModelInitializes(w) ==
    /\ svc.pc = "service"
    /\ svc.issued < MaxServiceCalls
    /\ w \in 1..Len(svc.workers)
    /\ ~svc.workers[w].terminated
    /\ svc' = [svc EXCEPT !.workers = workerInitialize(@, w),
                          !.issued = @ + 1,
                          !.last = "worker initialize"]
    /\ UNCHANGED <<worker, tok, stream, samp, soft, lib>>

\* AIService.cleanup() after its await: terminate, forget, reset
cleanupRest(s) ==
    [s EXCEPT !.workers = IF s.worker # 0
                          THEN [@ EXCEPT ![s.worker].terminated = TRUE]
                          ELSE @,
              !.worker = 0,
              !.aiWorker = 0,
              !.initialized = FALSE,
              !.last = "cleanup"]

\* AIService.cleanup() up to await this.aiWorker.cleanup()
ServiceCleanup ==
    /\ svc.pc = "service"
    /\ svc.issued < MaxServiceCalls
    /\ IF svc.aiWorker # 0
       THEN svc' = [svc EXCEPT !.issued = @ + 1,
                               !.calls = @ \cup {[n |-> svc.issued + 1,
                                                  pc |-> "cleaning",
                                                  w |-> svc.aiWorker]},
                               !.last = "cleanup began"]
       ELSE svc' = cleanupRest([svc EXCEPT !.issued = @ + 1])
    /\ UNCHANGED <<worker, tok, stream, samp, soft, lib>>

\* the worker's cleanup() answers and AIService.cleanup() resumes
ServiceCleanupResumes(c) ==
    /\ svc.pc = "service"
    /\ c \in svc.calls
    /\ c.pc = "cleaning"
    /\ ~svc.workers[c.w].terminated
    /\ svc' = cleanupRest([svc EXCEPT !.calls = @ \ {c}])
    /\ UNCHANGED <<worker, tok, stream, samp, soft, lib>>

ServiceNext ==
    \/ ServiceInitialize
    \/ \E c \in svc.calls : ServiceCreatesWorker(c)
    \/ \E c \in svc.calls : ServiceInitialized(c)
    \/ \E w \in 1..MaxServiceCalls : WorkerLoadModelInitializes(w)
    \/ ServiceCleanup
    \/ \E c \in svc.calls : ServiceCleanupResumes(c)

ServiceSpec == ServiceInit /\ [][ServiceNext]_vars

\* C22: initialize() is idempotent.  While the service's initialized flag is
\* set (a first call succeeded and no cleanup() has reset it), a call of
\* AIService.initialize() returns at once: no fetch, no new Worker, nothing
\* left in flight; and a worker whose initialize() body has run never runs
\* it again, however often initialize() is called on it.
InitializeIdempotent ==
    [][svc.pc = "service" =>
        /\ (/\ svc.initialized
            /\ svc'.issued # svc.issued
            /\ svc'.last \in {"initialize returned early", "initialize began"})
           => /\ svc'.last = "initialize returned early"
              /\ svc'.workers = svc.workers
              /\ svc'.fetches = svc.fetches
              /\ svc'.calls = svc.calls
              /\ svc'.initialized
        /\ \A w \in 1..Len(svc.workers) :
              svc.workers[w].initialized
              => /\ svc'.workers[w].initialized
                 /\ svc'.workers[w].bodyRuns = svc.workers[w].bodyRuns]_vars

\* C22 witness: a second AIService.initialize() has just returned early and
\* some worker has had initialize() called twice and run its body once
InitializeCalledAgain ==
    /\ svc.pc = "service"
    /\ svc.last = "initialize returned early"
    /\ \E w \in 1..Len(svc.workers) :
          /\ svc.workers[w].initializeCalls >= 2
          /\ svc.workers[w].bodyRuns = 1

\* C23: the probabilities handed to the sampling walk sum to 1 whenever any
\* of them is positive: after the filters the parts add up to the whole
\* (SumSeq(probs) / denom = 1), in sampleToken and in greedyDecode alike.
ProbabilitiesSumToOne ==
    (samp.pc \in {"normalized", "sampled"} /\ SumSeq(samp.probs) > 0)
    => SumSeq(samp.probs) = samp.denom

\* C23 witness: a filter has removed mass and the walk has run on what was
\* rescaled
SampledAfterMassRemoved ==
    /\ samp.pc = "sampled"
    /\ SumSeq(samp.probs) > 0
    /\ SumSeq(samp.probs) < SumSeq(samp.softmax)

\* C28 (the filter alone): once the top-k step has run with topK = k, the
\* positions left non-zero are the k highest of the softmax output (all of
\* them when there are fewer than k), each with the value it had.
TopKKeepsKHighest ==
    (samp.pc = "topK" /\ samp.topK > 0)
    => LET n == Len(samp.softmax)
           kept == topKIndices(samp.softmax, samp.topK)
       IN  /\ Cardinality(kept) = IF samp.topK < n THEN samp.topK ELSE n
           /\ \A i \in kept : \A j \in (1..n) \ kept : samp.softmax[i] >= samp.softmax[j]
           /\ \A i \in 1..n :
                 samp.probs[i] = IF i \in kept THEN samp.softmax[i] ELSE 0

\* C28 (as claimed): moreover the distribution on which the top-p step starts
\* sums to 1: the k kept probabilities have been renormalized.
TopKRenormalizesBeforeTopP ==
    /\ TopKKeepsKHighest
    /\ (samp.pc = "topK" /\ samp.topK > 0 /\ SumSeq(samp.probs) > 0)
       => SumSeq(samp.probs) = samp.denom

\* C28 witness of the failing case: top-k has kept one of three equally
\* likely tokens and top-p is about to start on a total mass of 1/3
TopKLeftMassBelowOne ==
    /\ samp.pc = "topK"
    /\ samp.softmax = << 1, 1, 1 >> /\ samp.topK = 1
    /\ samp.probs = << 1, 0, 0 >>
    /\ samp.denom = 3

\* C29 (as claimed): whenever the filtered distribution has any mass, the
\* position the walk returns has a non-zero probability, for every draw.
SampledTokenHasMass ==
    (samp.pc = "sampled" /\ SumSeq(samp.probs) > 0)
    => samp.probs[samp.token] > 0

\* C29 (draws above 0): the same for every draw other than 0.
SampledTokenHasMassPositiveDraw ==
    samp.random > 0 => SampledTokenHasMass

\* C29 witness of the failing case: top-p 0.5 on <<1/4, 3/4>> has zeroed the
\* first token, the draw is 0 and the first token is returned
ZeroedTokenSampled ==
    /\ samp.pc = "sampled"
    /\ samp.softmax = << 1, 3 >> /\ samp.topP = 50 /\ samp.topK = 0
    /\ samp.probs = << 0, 3 >>
    /\ samp.random = 0
    /\ samp.token = 1

\* ---------------------------------------------------------------------
\* Temperature scaling and softmax (greedyDecode and sampleToken open with
\* the same lines)
\* ---------------------------------------------------------------------

\* logits are counted in units of ln 2, so that Math.exp of a difference of
\* logits is a power of two, and are multiples of LogitStep, so that the
\* division by each temperature is exact
LogitStep == 4
MaxLogitSteps == 2
Logits == {LogitStep * k : k \in 0..MaxLogitSteps}
Temperatures == {1, 2, 4}
LogitVectors == UNION {[1..n -> Logits] : n \in 1..MaxVocab}

RECURSIVE exp2(_)
exp2(n) == IF n = 0 THEN 1 ELSE 2 * exp2(n - 1)

SoftInit ==
    /\ WorkerInit
    /\ tok = NoTok
    /\ stream = NoStream
    /\ samp = NoSamp
    /\ svc = NoSvc
    /\ LibIdle
    /\ soft \in {[pc |-> "logits", logits |-> l, t1 |-> a, t2 |-> b,
                  first |-> [probs |-> << >>, denom |-> 1],
                  second |-> [probs |-> << >>, denom |-> 1]] :
                    l \in LogitVectors, a \in Temperatures, b \in Temperatures}
    /\ soft.t1 < soft.t2

\* faulty variant of scaled: the temperature is not applied
notScaled(logits, temperature) == logits

\* if (temperature !== 1.0) logits[i] /= temperature
scaled(logits, temperature) ==
    IF temperature # 1
    THEN [i \in 1..Len(logits) |-> logits[i] \div temperature]
    ELSE logits

\* Math.max(...logits)
maxLogit(logits) == CHOOSE m \in {logits[i] : i \in 1..Len(logits)} :
                        \A i \in 1..Len(logits) : logits[i] <= m

\* expLogits = exp(l - maxLogit), sumExp, probs = exp / sumExp.  Each
\* probability is probs[i] / denom: numerator and denominator of
\* exp(l - maxLogit) / sumExp are both multiplied by exp(maxLogit - least
\* logit) to stay in the integers
softmax(logits) ==
    LET least == CHOOSE m \in {logits[i] : i \in 1..Len(logits)} :
                     \A i \in 1..Len(logits) : m <= logits[i]
        parts == [i \in 1..Len(logits) |-> exp2(logits[i] - least)]
    IN  [probs |-> parts, denom |-> SumSeq(parts)]

\* the opening of the sampler run on the logits at temperature t1
SoftmaxAtFirst ==
    /\ soft.pc = "logits"
    /\ soft' = [soft EXCEPT !.pc = "first",
                            !.first = softmax(scaled(soft.logits, soft.t1))]
    /\ UNCHANGED <<worker, tok, stream, samp, svc, lib>>

\* and on the same logits at temperature t2
SoftmaxAtSecond ==
    /\ soft.pc = "first"
    /\ soft' = [soft EXCEPT !.pc = "second",
                            !.second = softmax(scaled(soft.logits, soft.t2))]
    /\ UNCHANGED <<worker, tok, stream, samp, svc, lib>>

SoftNext ==
    \/ SoftmaxAtFirst
    \/ SoftmaxAtSecond

SoftSpec == SoftInit /\ [][SoftNext]_vars

\* the position of the top logit, and whether every logit is the same
topLogit(logits) == CHOOSE i \in 1..Len(logits) : logits[i] = maxLogit(logits)
allEqual(logits) == \A i \in 1..Len(logits) : logits[i] = logits[1]

\* C24 (as claimed): for temperatures t1 < t2 the probability of the
\* top-logit token after softmax is strictly greater at t1 than at t2.
TopProbabilityStrictlyDecreases ==
    soft.pc = "second"
    => LET top == topLogit(soft.logits)
       IN  soft.first.probs[top] * soft.second.denom
               > soft.second.probs[top] * soft.first.denom

\* C24 (amended): that holds whenever the logits are not all equal; when
\* they are all equal the top probability is 1/n at every temperature.
TopProbabilityDecreasesUnlessUniform ==
    soft.pc = "second"
    => LET top == topLogit(soft.logits)
           atFirst == soft.first.probs[top] * soft.second.denom
           atSecond == soft.second.probs[top] * soft.first.denom
       IN  IF allEqual(soft.logits)
           THEN /\ atFirst = atSecond
                /\ soft.first.probs[top] * Len(soft.logits) = soft.first.denom
           ELSE atFirst > atSecond

\* C24 witness: two tokens with the same logit have been put through softmax
\* at temperatures 1 and 2 and the top probability is 1/2 both times
UniformLogitsSameProbability ==
    /\ soft.pc = "second"
    /\ soft.logits = << LogitStep, LogitStep >>
    /\ soft.t1 = 1 /\ soft.t2 = 2
    /\ soft.first = [probs |-> << 1, 1 >>, denom |-> 2]
    /\ soft.second = [probs |-> << 1, 1 >>, denom |-> 2]

\* generatedText += newText, over everything yielded so far
RECURSIVE generatedText(_)
generatedText(yielded) ==
    IF yielded = << >> THEN << >>
    ELSE Head(yielded) \o generatedText(Tail(yielded))

\* C25 (as claimed): as soon as the text generated so far contains one of
\* the stop sequences, generation is over: no forward pass is running or
\* started for a further token.
StopSequenceEndsGeneration ==
    (\E seq \in stream.stopSequences : includes(generatedText(stream.yielded), seq))
    => stream.pc # "running"

\* C25 (single tokens): a sampled token whose own text contains a stop
\* sequence ends the generator at once and is not yielded.
StopTokenEndsGeneration ==
    [][(stream.pc = "running" /\ stream'.steps = stream.steps + 1 /\ stream'.pc = "yielded")
       => ~\E seq \in stream.stopSequences :
              includes(stream'.yielded[Len(stream'.yielded)], seq)]_vars

\* C25 witness of the failing case: "the" and "." have been yielded, the
\* text is "the.", the stop sequence is "the.", and a third forward pass runs
StopSequenceSpannedTokens ==
    /\ stream.pc = "running"
    /\ stream.stopSequences = {<< "the", "." >>}
    /\ generatedText(stream.yielded) = << "the", "." >>
    /\ stream.runs = 3

\* C30 (as claimed): every forward pass is fed the prompt tokens followed by
\* every token sampled so far, in order, and the current sequence is the
\* prompt followed by each sampled token once.
FedPromptAndEverySampledToken ==
    stream.pc \in {"running", "yielded", "done"}
    => /\ stream.currentTokens = stream.inputTokens \o stream.sampled
       /\ stream.pc = "running" => stream.fed = stream.inputTokens \o stream.sampled

\* C30 (amended): the same, with the one exception that a sampled stop token
\* ends the generation without being appended.
FedPromptAndEveryKeptToken ==
    stream.pc \in {"running", "yielded", "done"}
    => LET kept(t) == ~isStopToken(t, stream.stopSequences)
           generated == SelectSeq(stream.sampled, kept)
       IN  /\ stream.currentTokens = stream.inputTokens \o generated
           /\ stream.pc = "running" => stream.fed = stream.inputTokens \o generated
           /\ \A k \in 1..Len(stream.sampled) :
                 ~kept(stream.sampled[k])
                 => k = Len(stream.sampled) /\ stream.pc = "done"

\* C30 witness: "the" was sampled and appended, the second forward pass was
\* fed the prompt and "the", and the full stop sampled then ended the
\* generation without being appended
StopTokenNotAppended ==
    /\ stream.pc = "done"
    /\ stream.stopSequences = {<< "." >>}
    /\ stream.sampled = << 5, 60 >>
    /\ stream.fed = stream.inputTokens \o << 5 >>
    /\ stream.currentTokens = stream.inputTokens \o << 5 >>

\* C26 (as claimed): no forward pass runs on a released session: no
\* generateText awaits session.run on a session whose release() has been
\* invoked, whether the run or the release came first.
NoRunOnReleasedSession ==
    \A c \in inflight :
        (c.op = "generateText" /\ c.pc = "running") => sessions[c.sess].releases = 0

\* C26 witness of the failing case: a generateText that arrived after an
\* unloadModel of its model has invoked session.run on the session whose
\* release() that unloadModel is still awaiting
RunInvokedAfterRelease ==
    \E c, d \in inflight :
        /\ c.op = "generateText" /\ c.pc = "running"
        /\ d.op = "unloadModel" /\ d.pc = "releasing"
        /\ d.sess = c.sess
        /\ d.seq < c.seq
        /\ sessions[c.sess].releases >= 1

\* C27 (as claimed): a loadModel(id) that was in flight when an
\* unloadModel(id) returned true does not put id back: when such a call
\* completes and id was absent from the map, id is still absent.
StaleLoadCannotReinsert ==
    [][\A c \in inflight :
          (/\ c.op = "loadModel" /\ c.seq \in stale
           /\ c \notin inflight'
           /\ ~MapHas(models, c.id))
          => ~MapHas(models', c.id)]_vars

\* C27 (loads issued afterwards): a map entry only ever appears through a
\* loadModel of that id whose session creation resolved.
OnlyLoadModelInserts ==
    [][\A id \in ModelIds :
          (~MapHas(models, id) /\ MapHas(models', id))
          => \E c \in inflight : /\ c.op = "loadModel" /\ c.id = id /\ c.pc = "creating"
                                 /\ c \notin inflight'
                                 /\ last'.op = "loadModel" /\ last'.kind = "bool" /\ last'.b]_vars

\* C27 witness of the failing case: unloadModel(id) has just returned true,
\* id is absent, and a loadModel(id) that was in flight all along is still
\* waiting for its session
StaleLoadStillCreating ==
    /\ last.op = "unloadModel" /\ last.kind = "bool" /\ last.b
    /\ ~MapHas(models, last.id)
    /\ \E c \in inflight : c.op = "loadModel" /\ c.id = last.id /\ c.pc = "creating" /\ c.seq \in stale

\* C31 (as claimed): a generateText that resolved to a string without the
\* error marker resolved to the tokenizer's decode of a token the sampler can
\* return.
GeneratedTextIsDecodedOutput ==
    (last.op = "generateText" /\ last.kind = "string" /\ ~StartsWithMarker(last.text))
    => \E t \in SampledTokens : last.text = decode(<< t >>)

\* C31 (non-empty decodes): the same for every returned string other than the
\* fixed sentence generateText substitutes for an empty decode.
DecodedUnlessEmpty ==
    (/\ last.op = "generateText" /\ last.kind = "string" /\ ~StartsWithMarker(last.text)
     /\ last.text # << "Generated response from ONNX model" >>)
    => \E t \in SampledTokens : last.text = decode(<< t >>) /\ last.text # NoText

\* C31 witness of the failing case: the sampler returned <pad>, whose decode
\* is the empty string, and generateText resolved to the fixed sentence
PlaceholderReturned ==
    /\ last.op = "generateText" /\ last.pc = "running"
    /\ last.kind = "string" /\ last.tokens = 1
    /\ decode(<< 0 >>) = NoText
    /\ last.text = << "Generated response from ONNX model" >>

\* the Workers created and not terminated
LiveWorkers == {w \in 1..Len(svc.workers) : ~svc.workers[w].terminated}

\* C32 (as claimed): at most one Worker created by the service is alive at
\* any time, and once cleanup() has completed with no call in flight every
\* Worker that was created has been terminated.
OneWorkerPerCycle ==
    svc.pc = "service"
    => /\ Cardinality(LiveWorkers) <= 1
       /\ (svc.last = "cleanup" /\ svc.calls = {}) => LiveWorkers = {}

\* C32 witness of the failing case: two initialize() calls overlapped, each
\* created a Worker, and the cleanup() that followed terminated only the
\* second
WorkerLeakedAfterCleanup ==
    /\ svc.pc = "service"
    /\ svc.last = "cleanup" /\ svc.calls = {}
    /\ Len(svc.workers) = 2
    /\ LiveWorkers = {1}
    /\ svc.worker = 0

\* ---------------------------------------------------------------------
\* SimpleTokenizer.addToVocabulary (lib/ai/tokenizer.ts)
\* ---------------------------------------------------------------------

\* calls of addToVocabulary in one behaviour, and tokens in one call
MaxAdds == 2
MaxAddLen == 3

\* the tokens handed to addToVocabulary: one that initializeVocabulary put in
\* and two that it did not
AddTokens == {"the", "cat", "dog"}
AddInputs == UNION {[1..n -> AddTokens] : n \in 0..MaxAddLen}

\* a Map as the set of its <<key, value>> entries
MapKeys(m) == {e[1] : e \in m}
MapValues(m) == {e[2] : e \in m}
MapPut(m, k, v) == {e \in m : e[1] # k} \cup {<< k, v >>}

\* commonTokens.forEach((token, index) => { vocabulary.set(token, index);
\* reverseVocabulary.set(index, token) })
initializeVocabulary ==
    [pc |-> "vocabulary",
     vocabulary |-> {<< commonTokens[i], i - 1 >> : i \in 1..Len(commonTokens)},
     reverseVocabulary |-> {<< i - 1, commonTokens[i] >> : i \in 1..Len(commonTokens)},
     tokens |-> << >>,
     adds |-> 0]

VocabInit ==
    /\ WorkerInit
    /\ tok = NoTok
    /\ stream = NoStream
    /\ samp = NoSamp
    /\ svc = NoSvc
    /\ soft = NoSoft
    /\ pipe = NoPipe
    /\ store = NoStore
    /\ hist = NoHist
    /\ vocab = initializeVocabulary

\* Math.max(...this.vocabulary.values())
maxValue(m) == CHOOSE v \in MapValues(m) : \A x \in MapValues(m) : x <= v

\* a test that never finds the token
alwaysMissing(vocabulary, token) == TRUE

\* !this.vocabulary.has(token)
missing(vocabulary, token) == token \notin MapKeys(vocabulary)

\* the loop of addToVocabulary over tokens[k..], with nextId
RECURSIVE addLoop(_, _, _, _)
addLoop(v, tokens, k, nextId) ==
    IF k > Len(tokens) THEN v
    ELSE IF missing(v.vocabulary, tokens[k])
         THEN addLoop([v EXCEPT !.vocabulary = MapPut(@, tokens[k], nextId),
                                 !.reverseVocabulary = MapPut(@, nextId, tokens[k])],
                      tokens, k + 1, nextId + 1)
         ELSE addLoop(v, tokens, k + 1, nextId)

\* addToVocabulary(tokens)
AddToVocabulary(tokens) ==
    /\ vocab.pc = "vocabulary"
    /\ vocab.adds < MaxAdds
    /\ vocab' = addLoop([vocab EXCEPT !.tokens = tokens, !.adds = @ + 1],
                        tokens, 1, maxValue(vocab.vocabulary) + 1)
    /\ UNCHANGED <<worker, tok, stream, samp, svc, soft, pipe, store, hist>>

VocabNext == \E tokens \in AddInputs : AddToVocabulary(tokens)

VocabSpec == VocabInit /\ [][VocabNext]_vars

\* C33: the vocabulary is append-only and consistent.  In every state the two
\* maps are functions and mutual inverses and the ids are exactly 0..size-1;
\* in every call the entries already there stay as they are, and the size
\* grows by the number of distinct tokens of the input that were not present.
VocabularyAppendOnlyConsistent ==
    /\ [](vocab.pc = "vocabulary"
          => /\ \A e, f \in vocab.vocabulary : e[1] = f[1] => e = f
             /\ \A e, f \in vocab.reverseVocabulary : e[1] = f[1] => e = f
             /\ vocab.reverseVocabulary = {<< e[2], e[1] >> : e \in vocab.vocabulary}
             /\ MapValues(vocab.vocabulary) = 0..(Cardinality(vocab.vocabulary) - 1))
    /\ [][vocab.pc = "vocabulary"
          => /\ vocab.vocabulary \subseteq vocab'.vocabulary
             /\ vocab.reverseVocabulary \subseteq vocab'.reverseVocabulary
             /\ Cardinality(vocab'.vocabulary) =
                    Cardinality(vocab.vocabulary)
                    + Cardinality({vocab'.tokens[k] : k \in 1..Len(vocab'.tokens)}
                                  \ MapKeys(vocab.vocabulary))]_vars

\* C33 witness: addToVocabulary(["cat", "the", "cat"]) has run on the initial
\* vocabulary: "cat" got the one new id and "the" kept its own
AddedRepeatedAndPresent ==
    /\ vocab.pc = "vocabulary"
    /\ vocab.adds = 1
    /\ vocab.tokens = << "cat", "the", "cat" >>
    /\ << "cat", Len(commonTokens) >> \in vocab.vocabulary
    /\ << "the", 5 >> \in vocab.vocabulary
    /\ Cardinality(vocab.vocabulary) = Len(commonTokens) + 1

\* ---------------------------------------------------------------------
\* OfflineAIPipeline.cleanup() over ONNXModelLoader.unloadModel
\* ---------------------------------------------------------------------

\* messages in the conversation history when cleanup() is called
MaxPipeHistory == 2

\* this.manifest.models, by id: what getAvailableModels() returns
availableModels == << "m1", "m2", "m3" >>
PipeModelIds == {availableModels[k] : k \in 1..Len(availableModels)}

\* a pipeline in use: some models loaded, some messages in the history, some
\* models with performance metrics
PipeInit ==
    /\ WorkerInit
    /\ tok = NoTok
    /\ stream = NoStream
    /\ samp = NoSamp
    /\ svc = NoSvc
    /\ soft = NoSoft
    /\ vocab = NoVocab
    /\ store = NoStore
    /\ hist = NoHist
    /\ pipe \in {[pc |-> "idle", loadedModels |-> l, history |-> h,
                  performanceMetrics |-> m, it |-> 0, unloadFailed |-> FALSE,
                  result |-> "none"] :
                    l \in SUBSET PipeModelIds, h \in 0..MaxPipeHistory,
                    m \in SUBSET PipeModelIds}

\* the for loop of cleanup() from position k on: the next model that
\* isModelLoaded has its release awaited; after the last one the history and
\* the metrics are cleared and cleanup() resolves
cleanupLoop(p, k) ==
    LET loaded == {j \in k..Len(availableModels) : availableModels[j] \in p.loadedModels}
    IN  IF loaded = {}
        THEN [p EXCEPT !.pc = "done", !.history = 0, !.performanceMetrics = {},
                       !.result = "resolved"]
        ELSE [p EXCEPT !.pc = "releasing",
                       !.it = CHOOSE j \in loaded : \A x \in loaded : j <= x]

\* cleanup() up to its first awaited release
PipeCleanupBegin ==
    /\ pipe.pc = "idle"
    /\ pipe' = cleanupLoop(pipe, 1)
    /\ UNCHANGED <<worker, tok, stream, samp, svc, soft, vocab, store, hist>>

\* session.release() resolved: unloadModel deletes the model and returns,
\* and the loop goes on
PipeReleaseResolved ==
    /\ pipe.pc = "releasing"
    /\ pipe' = cleanupLoop([pipe EXCEPT !.loadedModels = @ \ {availableModels[pipe.it]}],
                           pipe.it + 1)
    /\ UNCHANGED <<worker, tok, stream, samp, svc, soft, vocab, store, hist>>

\* session.release() rejected: unloadModel rethrows, the catch block of
\* cleanup() logs, and cleanup() resolves
PipeReleaseRejected ==
    /\ pipe.pc = "releasing"
    /\ pipe' = [pipe EXCEPT !.pc = "done", !.unloadFailed = TRUE, !.result = "resolved"]
    /\ UNCHANGED <<worker, tok, stream, samp, svc, soft, vocab, store, hist>>

PipeNext ==
    \/ PipeCleanupBegin
    \/ PipeReleaseResolved
    \/ PipeReleaseRejected

PipeSpec == PipeInit /\ [][PipeNext]_vars

\* C34 (as claimed): a completed cleanup() resolved normally and left no
\* model loaded, an empty history and no performance metrics, whether or not
\* an unload failed.
PipelineCleanupClearsAll ==
    pipe.pc = "done"
    => /\ pipe.result = "resolved"
       /\ pipe.loadedModels = {}
       /\ pipe.history = 0
       /\ pipe.performanceMetrics = {}

\* C34 (when every unload succeeds): the same for the cleanups in which no
\* unload failed; and cleanup() never throws.
PipelineCleanupClearsUnlessFailed ==
    pipe.pc = "done"
    => /\ pipe.result = "resolved"
       /\ ~pipe.unloadFailed => /\ pipe.loadedModels = {}
                                /\ pipe.history = 0
                                /\ pipe.performanceMetrics = {}

\* C34 witness of the failing case: the release of the first of two loaded
\* models failed; cleanup() has resolved with both still loaded and the
\* history and the metrics untouched
PipelineCleanupGaveUp ==
    /\ pipe.pc = "done" /\ pipe.unloadFailed
    /\ pipe.result = "resolved"
    /\ pipe.it = 1
    /\ pipe.loadedModels = {"m1", "m2"}
    /\ pipe.history = MaxPipeHistory
    /\ pipe.performanceMetrics = {"m1"}

\* ---------------------------------------------------------------------
\* StorageManager: saveNote/deleteNote, saveConversation/deleteConversation,
\* saveDocument/deleteDocument write to IndexedDB and to SQLite in one
\* Promise.all
\* ---------------------------------------------------------------------

\* calls on the StorageManager in one behaviour
MaxStoreCalls == 3

\* the three kinds of record (IndexedDB store and SQLite table of that name)
\* and the record ids
RecordKinds == {"notes", "conversations", "documents"}
RecordIds == {"r1", "r2"}

StoreInit ==
    /\ WorkerInit
    /\ tok = NoTok
    /\ stream = NoStream
    /\ samp = NoSamp
    /\ svc = NoSvc
    /\ soft = NoSoft
    /\ vocab = NoVocab
    /\ pipe = NoPipe
    /\ hist = NoHist
    /\ store = [pc |-> "storage", indexedDB |-> {}, sqlite |-> {}, calls |-> 0,
                failures |-> 0, last |-> "none"]

\* what a call resolves to: Promise.all rejects as soon as one of the two
\* writes rejects, and the catch block throws "Failed to ..."
settled(idbOk, sqlOk) == IF idbOk /\ sqlOk THEN "resolved" ELSE "threw"

\* saveNote / saveConversation / saveDocument: indexedDB.set (a put) and the
\* INSERT OR REPLACE are both started; each takes effect iff it succeeds
SaveRecord(kind, id, idbOk, sqlOk) ==
    /\ store.pc = "storage"
    /\ store.calls < MaxStoreCalls
    /\ store' = [store EXCEPT
                    !.indexedDB = IF idbOk THEN @ \cup {<< kind, id >>} ELSE @,
                    !.sqlite = IF sqlOk THEN @ \cup {<< kind, id >>} ELSE @,
                    !.calls = @ + 1,
                    !.failures = IF idbOk /\ sqlOk THEN @ ELSE @ + 1,
                    !.last = settled(idbOk, sqlOk)]
    /\ UNCHANGED <<worker, tok, stream, samp, svc, soft, vocab, pipe, hist>>

\* deleteNote / deleteConversation / deleteDocument: indexedDB.delete and the
\* DELETE FROM are both started; each takes effect iff it succeeds
DeleteRecord(kind, id, idbOk, sqlOk) ==
    /\ store.pc = "storage"
    /\ store.calls < MaxStoreCalls
    /\ store' = [store EXCEPT
                    !.indexedDB = IF idbOk THEN @ \ {<< kind, id >>} ELSE @,
                    !.sqlite = IF sqlOk THEN @ \ {<< kind, id >>} ELSE @,
                    !.calls = @ + 1,
                    !.failures = IF idbOk /\ sqlOk THEN @ ELSE @ + 1,
                    !.last = settled(idbOk, sqlOk)]
    /\ UNCHANGED <<worker, tok, stream, samp, svc, soft, vocab, pipe, hist>>

StoreNext ==
    \/ \E kind \in RecordKinds, id \in RecordIds, idbOk \in BOOLEAN, sqlOk \in BOOLEAN :
          SaveRecord(kind, id, idbOk, sqlOk)
    \/ \E kind \in RecordKinds, id \in RecordIds, idbOk \in BOOLEAN, sqlOk \in BOOLEAN :
          DeleteRecord(kind, id, idbOk, sqlOk)

StoreSpec == StoreInit /\ [][StoreNext]_vars

\* C35 (as claimed): after any sequence of saves and deletes, each of which
\* may fail in either store, the IndexedDB stores and the SQLite tables hold
\* the same record ids.
StoresHoldSameIds ==
    store.pc = "storage" => store.indexedDB = store.sqlite

\* C35 (without failures): the same as long as no write has failed.
StoresAgreeWithoutFailure ==
    (store.pc = "storage" /\ store.failures = 0) => store.indexedDB = store.sqlite

\* C35 witness of the failing case: saveNote of r1 threw because the
\* IndexedDB put failed, and the note is in SQLite alone
NoteInSQLiteOnly ==
    /\ store.pc = "storage"
    /\ store.calls = 1 /\ store.last = "threw"
    /\ store.indexedDB = {}
    /\ store.sqlite = {<< "notes", "r1" >>}

\* ---------------------------------------------------------------------
\* AIResponseProcessor: the conversation history and its length limit
\* ---------------------------------------------------------------------

\* calls on the processor in one behaviour, the largest length passed to
\* setMaxHistoryLength and the longest array passed to importHistory
MaxHistoryCalls == 4
MaxLengthArg == 3
MaxImport == 3

\* private maxHistoryLength: number = 50
DefaultMaxHistoryLength == 50

\* a JavaScript number: an integer or NaN
Num(v) == [nan |-> FALSE, v |-> v]
NaN == [nan |-> TRUE, v |-> 0]
LengthArgs == {Num(v) : v \in (0 - 1)..MaxLengthArg} \cup {NaN}

\* what importHistory is handed: text that is not JSON, JSON that is not an
\* array, or an array of n messages
ImportArgs ==
    {[json |-> "invalid", n |-> 0], [json |-> "not an array", n |-> 0]}
        \cup {[json |-> "array", n |-> n] : n \in 0..MaxImport}

\* a message is the number of its arrival; added counts the arrivals
HistInit ==
    /\ WorkerInit
    /\ tok = NoTok
    /\ stream = NoStream
    /\ samp = NoSamp
    /\ svc = NoSvc
    /\ soft = NoSoft
    /\ vocab = NoVocab
    /\ pipe = NoPipe
    /\ store = NoStore
    /\ hist = [pc |-> "history", conversationHistory |-> << >>,
               maxHistoryLength |-> Num(DefaultMaxHistoryLength),
               added |-> 0, calls |-> 0, last |-> "none"]

\* Math.max(1, length): NaN when length is NaN
mathMax1(length) ==
    IF length.nan THEN NaN
    ELSE IF length.v > 1 THEN length ELSE Num(1)

\* this.conversationHistory.length > this.maxHistoryLength: false against NaN
exceeds(history, max) == ~max.nan /\ Len(history) > max.v

\* .slice(-max): the last max elements, all of them when there are fewer;
\* -NaN converts to the index 0, so all of them as well
sliceLast(history, max) ==
    IF max.nan \/ max.v >= Len(history) THEN history
    ELSE SubSeq(history, Len(history) - max.v + 1, Len(history))

\* the trimming that ends addToHistory and setMaxHistoryLength
trimmed(history, max) ==
    IF exceeds(history, max) THEN sliceLast(history, max) ELSE history

\* addToHistory(message)
AddToHistory ==
    /\ hist.pc = "history"
    /\ hist.calls < MaxHistoryCalls
    /\ hist' = [hist EXCEPT
                   !.conversationHistory =
                       trimmed(Append(@, hist.added + 1), hist.maxHistoryLength),
                   !.added = @ + 1,
                   !.calls = @ + 1,
                   !.last = "addToHistory"]
    /\ UNCHANGED <<worker, tok, stream, samp, svc, soft, vocab, pipe, store>>

\* clearHistory()
ClearHistory ==
    /\ hist.pc = "history"
    /\ hist.calls < MaxHistoryCalls
    /\ hist' = [hist EXCEPT !.conversationHistory = << >>,
                            !.calls = @ + 1,
                            !.last = "clearHistory"]
    /\ UNCHANGED <<worker, tok, stream, samp, svc, soft, vocab, pipe, store>>

\* setMaxHistoryLength(length)
SetMaxHistoryLength(length) ==
    /\ hist.pc = "history"
    /\ hist.calls < MaxHistoryCalls
    /\ hist' = [hist EXCEPT
                   !.maxHistoryLength = mathMax1(length),
                   !.conversationHistory = trimmed(@, mathMax1(length)),
                   !.calls = @ + 1,
                   !.last = "setMaxHistoryLength"]
    /\ UNCHANGED <<worker, tok, stream, samp, svc, soft, vocab, pipe, store>>

\* importHistory(historyJson): JSON.parse throws on invalid text ("Invalid
\* history format"), anything but an array is ignored, and an array replaces
\* the history by its last maxHistoryLength messages
ImportHistory(arg) ==
    /\ hist.pc = "history"
    /\ hist.calls < MaxHistoryCalls
    /\ hist' = IF arg.json = "invalid"
               THEN [hist EXCEPT !.calls = @ + 1, !.last = "importHistory threw"]
               ELSE IF arg.json = "not an array"
               THEN [hist EXCEPT !.calls = @ + 1, !.last = "importHistory"]
               ELSE [hist EXCEPT
                        !.conversationHistory =
                            sliceLast([k \in 1..arg.n |-> hist.added + k],
                                      hist.maxHistoryLength),
                        !.added = @ + arg.n,
                        !.calls = @ + 1,
                        !.last = "importHistory"]
    /\ UNCHANGED <<worker, tok, stream, samp, svc, soft, vocab, pipe, store>>

HistNext ==
    \/ AddToHistory
    \/ ClearHistory
    \/ \E length \in LengthArgs : SetMaxHistoryLength(length)
    \/ \E arg \in ImportArgs : ImportHistory(arg)

HistSpec == HistInit /\ [][HistNext]_vars

\* the history holds the most recent arrivals in arrival order
MostRecentInOrder ==
    \A k \in 1..Len(hist.conversationHistory) :
        hist.conversationHistory[k] = hist.added - Len(hist.conversationHistory) + k

\* C36 (as claimed): maxHistoryLength is always at least 1, and the history
\* holds at most that many messages, the most recently added ones in
\* arrival order.
HistoryBounded ==
    hist.pc = "history"
    => /\ ~hist.maxHistoryLength.nan
       /\ hist.maxHistoryLength.v >= 1
       /\ Len(hist.conversationHistory) <= hist.maxHistoryLength.v
       /\ MostRecentInOrder

\* C36 (while the limit is a number): the same in every state in which
\* maxHistoryLength is not NaN; the order holds in every state.
HistoryBoundedUnlessNaN ==
    hist.pc = "history"
    => /\ MostRecentInOrder
       /\ ~hist.maxHistoryLength.nan
          => /\ hist.maxHistoryLength.v >= 1
             /\ Len(hist.conversationHistory) <= hist.maxHistoryLength.v

\* C36 witness of the failing case: after setMaxHistoryLength(1) and
\* setMaxHistoryLength(NaN) two messages were added and both are kept
HistoryGrewPastLimit ==
    /\ hist.pc = "history"
    /\ hist.maxHistoryLength.nan
    /\ hist.calls = 4
    /\ hist.conversationHistory = << 1, 2 >>

====
